---- MODULE Spec2Model ----
(***************************************************************************)
(* Caption alignment and timing synthesis of html-to-video                 *)
(* (src/server/services/srt-parser.js).                                    *)
(*                                                                         *)
(* Strings are sequences of one-character strings, so that the regular     *)
(* expressions, split(), includes() and slice() of the source can be       *)
(* modelled character by character.  JavaScript numbers are exact          *)
(* rationals <<n, d>> with d > 0 in lowest terms (seconds); NaN is the     *)
(* value NaN.  Floating-point rounding error is not modelled.              *)
(***************************************************************************)
EXTENDS Integers, Sequences, FiniteSets, TLC

VARIABLES
    nText, nOut, nPc,                    \* normalize(): input, outputs, position
    simA, simB, simOut, simPc,           \* similarity(): inputs, outputs, position
    tsInput, tsOut, tsPc,                \* timeToSeconds(): input, output, position
    \* mapSrtToBeatsIntelligent(srtContent, beatTexts, opts)
    cues,                                \* parseSrt(srtContent): [index, startTime, endTime, text]
    cueTexts,                            \* cues.map(c => normalize(c.text))
    beatTexts, beatTypes,                \* the beats, in click order, and opts.beatTypes
    segStart, segEnd,                    \* opts.segStart, opts.segEnd (NULL when omitted)
    beatIdx, searchStart, mapping,       \* the matching loop
    bestIdx, bestScore,                  \* the best cue of the current beat
    beatTimes, method,                   \* the result
    bPc,                                 \* position: "idle", "loop", "decide", "interpolate", "done"
    \* mapSrtToSegments(srtContent, segments); the cue list is `cues`
    segments,                            \* [num, script], in script order
    cueWordSets,                         \* the word set of every cue
    segIdx, rawMatches,                  \* pass 1: the loop over the segments
    matchedIdxs, candPos, assigned,      \* pass 2: candidates by confidence, assigned ranges
    segmentMatches,                      \* the result (NULL until built)
    sPc,                                 \* position: "idle", "start", "pass1", "pass2", "done"
    \* renderer.js and the render routes
    jobs,                                \* the jobs Map: job id k is entry k, [status, aborted]
    renderAllRunning,                    \* the flag of POST /api/render/all
    allQueue,                            \* runRenderAll: render items not yet started
    allJob,                              \* runRenderAll: id of the job awaited (0: none)
    \* POST /api/import/rematch-segment and remapBeatsToSegmentCues()
    projectFile,                         \* project.json on disk: <<>> or <<[segments, srtMatch]>>
    project,                             \* the handler's parsed copy (NULL outside a request)
    timingFiles,                         \* <file>.timing.json, for the files that have one
    analysisFiles,                       \* <file>.analysis.json, for the files that have one
    srtCache,                            \* project-srt.cache: <<>> or <<the blocks of the SRT>>
    rmReq,                               \* req.body: [segmentNum, newStartTime]
    startCue, newEndTime,                \* the cue closest to newStartTime, the new end
    htmlFiles, rmFileIdx,                \* the loop over the segment's HTML files
    rmStatus,                            \* HTTP status of the response (0: none yet)
    rmPc,                                \* position: "idle", "files", "done"
    \* One render job in detail: startRender, runRender, captureFrames, cancelJob
    renderBeatTimes, transitionMs,       \* the arguments beatTimes and transitionMs
    localBeats, totalFrames,             \* the sorted beats shifted to 0, the frame count
    frame, nextBeatIdx,                  \* the loop variables f and nextBeatIdx
    clickedAt, lastFrame,                \* time of the last click (NULL: -Infinity), a frame is held
    clicks,                              \* the frame of every page.click() so far, in order
    signalAborted,                       \* abortController.signal.aborted
    cancelReturned,                      \* cancelJob(jobId) has returned true
    jobStatus,                           \* job.status
    broadcasts,                          \* the types of the messages broadcast
    outputFile,                          \* the output file: "none", "partial", "complete"
    \* the await the job is in: "idle", "launch", "top", "shot", "drain", "encode", "settled"
    rPc,
    \* POST /api/import/analyze-all and the responses of the two batch routes
    analyzeAllRunning,                   \* the flag of POST /api/import/analyze-all
    analyzeQueue,                        \* runAnalyzeAll: analyses not yet settled
    analyzeErrors,                       \* runAnalyzeAll: errors.length
    response,                            \* the last response of a batch route: [route, status]
    reqParity                            \* flips with every request to a batch route

textVars == <<nText, nOut, nPc>>
simVars  == <<simA, simB, simOut, simPc>>
timeVars == <<tsInput, tsOut, tsPc>>
beatVars == <<cues, cueTexts, beatTexts, beatTypes, segStart, segEnd, beatIdx, searchStart,
              mapping, bestIdx, bestScore, beatTimes, method, bPc>>
segVars  == <<segments, cueWordSets, segIdx, rawMatches, matchedIdxs, candPos, assigned,
              segmentMatches, sPc>>
renderVars == <<jobs, renderAllRunning, allQueue, allJob>>
rematchVars == <<projectFile, project, timingFiles, analysisFiles, srtCache, rmReq, startCue, newEndTime, htmlFiles, rmFileIdx, rmStatus, rmPc>>
captureVars == <<renderBeatTimes, transitionMs, localBeats, totalFrames, frame, nextBeatIdx, clickedAt, lastFrame, clicks, signalAborted, cancelReturned, jobStatus, broadcasts, outputFile, rPc>>
batchVars == <<analyzeAllRunning, analyzeQueue, analyzeErrors, response, reqParity>>
vars     == <<textVars, simVars, timeVars, beatVars, segVars, renderVars, rematchVars, captureVars, batchVars>>

\* JavaScript null / undefined and NaN: one-element tuples, so that they compare
\* with strings (tuples of characters) and with numbers (pairs)
NULL == <<"null">>
NaN  == <<"NaN">>

(***************************************************************************)
(* Exact rational arithmetic standing for JavaScript numbers.              *)
(***************************************************************************)
Abs(x) == IF x < 0 THEN -x ELSE x

RECURSIVE Gcd(_, _)
Gcd(a, b) == IF b = 0 THEN a ELSE Gcd(b, a % b)

Rat(n, d) ==
    LET s == IF d < 0 THEN -1 ELSE 1
        g == Gcd(Abs(n), Abs(d))
    IN  <<(s * n) \div g, (s * d) \div g>>

RInt(n)      == <<n, 1>>
RAdd(a, b)   == Rat(a[1] * b[2] + b[1] * a[2], a[2] * b[2])
RSub(a, b)   == Rat(a[1] * b[2] - b[1] * a[2], a[2] * b[2])
RMul(a, b)   == Rat(a[1] * b[1], a[2] * b[2])
RDiv(a, b)   == Rat(a[1] * b[2], a[2] * b[1])
RLe(a, b)    == a[1] * b[2] <= b[1] * a[2]
RLt(a, b)    == a[1] * b[2] < b[1] * a[2]
RMax(a, b)   == IF RLt(a, b) THEN b ELSE a
RMin(a, b)   == IF RLt(b, a) THEN b ELSE a
IsRat(x)     == x # NaN /\ x # NULL

\* Math.round(t * 1000) / 1000: round half up to a whole number of milliseconds.
RoundMs(t) == Rat((2 * 1000 * t[1] + t[2]) \div (2 * t[2]), 1000)

(***************************************************************************)
(* Characters and strings.                                                 *)
(***************************************************************************)
LowerChars == {"a", "b", "c", "d", "e", "f", "g", "h", "i", "j", "k", "l", "m",
               "n", "o", "p", "q", "r", "s", "t", "u", "v", "w", "x", "y", "z"}
UpperChars == {"A", "B", "C", "D", "F", "L", "N"}
DigitChars == {"0", "1", "2", "3", "4", "5", "6", "7", "8", "9"}
SpaceChars == {" ", "\t", "\n"}                        \* \s
WordChars  == LowerChars \cup UpperChars \cup DigitChars \cup {"_"}   \* \w

\* String.prototype.toLowerCase, one character
ToLowerChar(c) ==
    CASE c = "A" -> "a" [] c = "B" -> "b" [] c = "C" -> "c" [] c = "D" -> "d"
      [] c = "F" -> "f" [] c = "L" -> "l" [] c = "N" -> "n"
      [] OTHER -> c

\* .toLowerCase()
ToLower(s) == [i \in 1..Len(s) |-> ToLowerChar(s[i])]

\* s.includes(t)
Includes(s, t) ==
    \E i \in 0..(Len(s) - Len(t)) : SubSeq(s, i + 1, i + Len(t)) = t

\* s + ' ' + t
JoinSp(s, t) == s \o <<" ">> \o t

\* new Set(s.split(' ').filter(Boolean)): the maximal runs of characters other
\* than the space character
WordSet(s) ==
    LET starts == { i \in 1..Len(s) : s[i] # " " /\ (i = 1 \/ s[i - 1] = " ") }
        EndOf(i) == CHOOSE j \in i..Len(s) :
                        /\ \A k \in i..j : s[k] # " "
                        /\ (j = Len(s) \/ s[j + 1] = " ")
    IN  { SubSeq(s, i, EndOf(i)) : i \in starts }

\* .replace(/[^\w\s]/g, ' ')
PunctToSpace(c) == IF c \in WordChars \cup SpaceChars THEN c ELSE " "

ReplacePunct(s) == [i \in 1..Len(s) |-> PunctToSpace(s[i])]

\* .replace(/\s+/g, ' '): every maximal run of whitespace becomes one space
RECURSIVE CollapseSpaces(_)
CollapseSpaces(s) ==
    IF s = <<>> THEN <<>>
    ELSE IF Head(s) \in SpaceChars
         THEN IF Len(s) > 1 /\ s[2] \in SpaceChars
              THEN CollapseSpaces(Tail(s))
              ELSE <<" ">> \o CollapseSpaces(Tail(s))
         ELSE <<Head(s)>> \o CollapseSpaces(Tail(s))

\* .trim()
RECURSIVE TrimLeft(_)
TrimLeft(s) ==
    IF s # <<>> /\ Head(s) \in SpaceChars THEN TrimLeft(Tail(s)) ELSE s

RECURSIVE TrimRight(_)
TrimRight(s) ==
    IF s # <<>> /\ s[Len(s)] \in SpaceChars
    THEN TrimRight(SubSeq(s, 1, Len(s) - 1)) ELSE s

Trim(s) == TrimRight(TrimLeft(s))

\* A plausible slip: whitespace collapsed before punctuation is replaced.
normalizeCollapseFirst(text) ==
    Trim(ReplacePunct(CollapseSpaces(ToLower(IF text = NULL THEN <<>> ELSE text))))

\* normalize(text)
normalize(text) ==
    Trim(CollapseSpaces(ReplacePunct(ToLower(IF text = NULL THEN <<>> ELSE text))))

\* toBigrams(str)
toBigrams(str) == { SubSeq(str, i, i + 1) : i \in 1..(Len(str) - 1) }

MaxInt(a, b) == IF a >= b THEN a ELSE b

SubstringBonus == <<3, 10>>

\* similarity(a, b) before the final clamp: max(jaccard, bigramScore) + substringBonus
similarityRaw(a, b) ==
    LET setA == WordSet(a)
        setB == WordSet(b)
        overlap  == Cardinality(setA \cap setB)
        jaccard  == Rat(overlap, MaxInt(Cardinality(setA), Cardinality(setB)))
        bonus    == IF Includes(a, b) \/ Includes(b, a)
                    THEN SubstringBonus ELSE RInt(0)
        bigramsA == toBigrams(a)
        bigramsB == toBigrams(b)
        bigramOverlap == Cardinality(bigramsA \cap bigramsB)
        bigramScore ==
            IF Cardinality(bigramsA) > 0
            THEN Rat(bigramOverlap,
                     MaxInt(Cardinality(bigramsA), Cardinality(bigramsB)))
            ELSE RInt(0)
    IN  RAdd(RMax(jaccard, bigramScore), bonus)

\* A plausible slip: the final Math.min(1, ...) clamp left out.
similarityNoClamp(a, b) ==
    IF a = NULL \/ b = NULL \/ a = <<>> \/ b = <<>> THEN RInt(0)
    ELSE IF WordSet(a) = {} \/ WordSet(b) = {} THEN RInt(0)
    ELSE similarityRaw(a, b)

\* similarity(a, b)
similarity(a, b) ==
    IF a = NULL \/ b = NULL \/ a = <<>> \/ b = <<>> THEN RInt(0)
    ELSE IF WordSet(a) = {} \/ WordSet(b) = {} THEN RInt(0)
    ELSE RMin(RInt(1), similarityRaw(a, b))

(***************************************************************************)
(* timeToSeconds().  parseInt and parseFloat are modelled for strings of   *)
(* digits, '.', ',', ':' and letters (no sign, white space or exponent).   *)
(***************************************************************************)
DigitVal(c) ==
    CASE c = "0" -> 0 [] c = "1" -> 1 [] c = "2" -> 2 [] c = "3" -> 3
      [] c = "4" -> 4 [] c = "5" -> 5 [] c = "6" -> 6 [] c = "7" -> 7
      [] c = "8" -> 8 [] c = "9" -> 9

RECURSIVE DigitsValue(_)
DigitsValue(ds) ==
    IF ds = <<>> THEN 0
    ELSE 10 * DigitsValue(SubSeq(ds, 1, Len(ds) - 1)) + DigitVal(ds[Len(ds)])

RECURSIVE Pow10(_)
Pow10(n) == IF n = 0 THEN 1 ELSE 10 * Pow10(n - 1)

\* Length of the longest prefix of s made of digits
RECURSIVE DigitPrefixLen(_)
DigitPrefixLen(s) ==
    IF s # <<>> /\ Head(s) \in DigitChars THEN 1 + DigitPrefixLen(Tail(s)) ELSE 0

\* parseInt(s, 10)
parseInt(s) ==
    LET n == DigitPrefixLen(s)
    IN  IF n = 0 THEN NaN ELSE RInt(DigitsValue(SubSeq(s, 1, n)))

\* parseFloat(s)
parseFloat(s) ==
    LET n     == DigitPrefixLen(s)
        rest  == SubSeq(s, n + 1, Len(s))
        m     == IF rest # <<>> /\ Head(rest) = "." THEN DigitPrefixLen(Tail(rest)) ELSE 0
        whole == DigitsValue(SubSeq(s, 1, n))
        frac  == DigitsValue(SubSeq(rest, 2, m + 1))
    IN  IF n = 0 /\ m = 0 THEN NaN
        ELSE RAdd(RInt(whole), Rat(frac, Pow10(m)))

\* s.replace(',', '.'): the first comma only
RECURSIVE ReplaceFirstComma(_)
ReplaceFirstComma(s) ==
    IF s = <<>> THEN <<>>
    ELSE IF Head(s) = "," THEN <<".">> \o Tail(s)
    ELSE <<Head(s)>> \o ReplaceFirstComma(Tail(s))

\* s.split(':')
RECURSIVE SplitColon(_)
SplitColon(s) ==
    IF \A i \in 1..Len(s) : s[i] # ":" THEN <<s>>
    ELSE LET i == CHOOSE k \in 1..Len(s) : s[k] = ":" /\ \A j \in 1..(k - 1) : s[j] # ":"
         IN  <<SubSeq(s, 1, i - 1)>> \o SplitColon(SubSeq(s, i + 1, Len(s)))

\* hours * 3600 + minutes * 60 + seconds on JavaScript numbers
HmsToSeconds(hours, minutes, seconds) ==
    IF hours = NaN \/ minutes = NaN \/ seconds = NaN THEN NaN
    ELSE RAdd(RAdd(RMul(hours, RInt(3600)), RMul(minutes, RInt(60))), seconds)

\* x || 0 on a JavaScript number
OrZero(x) == IF x = NaN THEN RInt(0) ELSE x

\* A plausible slip: the comma is not replaced by a period.
timeToSecondsNoReplace(timeStr) ==
    IF timeStr = NULL \/ timeStr = <<>> THEN RInt(0)
    ELSE LET parts == SplitColon(timeStr)
         IN  IF Len(parts) = 3
             THEN HmsToSeconds(parseInt(parts[1]), parseInt(parts[2]), parseFloat(parts[3]))
             ELSE OrZero(parseFloat(timeStr))

\* timeToSeconds(timeStr)
timeToSeconds(timeStr) ==
    IF timeStr = NULL \/ timeStr = <<>> THEN RInt(0)
    ELSE LET clean == ReplaceFirstComma(timeStr)
             parts == SplitColon(clean)
         IN  IF Len(parts) = 3
             THEN HmsToSeconds(parseInt(parts[1]), parseInt(parts[2]), parseFloat(parts[3]))
             ELSE OrZero(parseFloat(clean))

(***************************************************************************)
(* Bounded string sets.                                                    *)
(***************************************************************************)
RECURSIVE StringsUpTo(_, _)
StringsUpTo(chars, n) ==
    IF n = 0 THEN {<<>>}
    ELSE LET shorter == StringsUpTo(chars, n - 1)
         IN  shorter \cup { Append(s, c) : s \in shorter, c \in chars }

MaxNormLen == 4
NormChars  == {"a", "B", "_", " ", "\t", "!"}
NormInputs == StringsUpTo(NormChars, MaxNormLen) \cup {NULL}

MaxSimLen == 3
SimChars  == {"a", "b", " "}
SimInputs == StringsUpTo(SimChars, MaxSimLen)

(***************************************************************************)
(* normalize() applied to one input, then to its own output.               *)
(***************************************************************************)
InitNormalize ==
    /\ nText \in NormInputs
    /\ nOut = NULL
    /\ nPc = "start"
    /\ simA = <<>> /\ simB = <<>> /\ simOut = NULL /\ simPc = "idle"
    /\ tsInput = <<>> /\ tsOut = NULL /\ tsPc = "idle"
    /\ cues = <<>> /\ cueTexts = <<>> /\ beatTexts = <<>> /\ beatTypes = <<>>
    /\ segStart = NULL /\ segEnd = NULL
    /\ beatIdx = 0 /\ searchStart = 0 /\ mapping = <<>>
    /\ bestIdx = -1 /\ bestScore = RInt(0)
    /\ beatTimes = NULL /\ method = "none" /\ bPc = "idle"
    /\ segments = <<>> /\ cueWordSets = <<>> /\ segIdx = 0 /\ rawMatches = <<>>
    /\ matchedIdxs = <<>> /\ candPos = 0 /\ assigned = <<>>
    /\ segmentMatches = NULL /\ sPc = "idle"
    /\ jobs = <<>> /\ renderAllRunning = FALSE /\ allQueue = 0 /\ allJob = 0
    /\ analyzeAllRunning = FALSE /\ analyzeQueue = 0 /\ analyzeErrors = 0 /\ response = [route |-> "none", status |-> 0] /\ reqParity = 0
    /\ renderBeatTimes = <<>> /\ transitionMs = 0 /\ localBeats = <<>> /\ totalFrames = 0 /\ frame = 0 /\ nextBeatIdx = 0 /\ clickedAt = NULL /\ lastFrame = FALSE /\ clicks = <<>> /\ signalAborted = FALSE /\ cancelReturned = FALSE /\ jobStatus = "none" /\ broadcasts = {} /\ outputFile = "none" /\ rPc = "idle"
    /\ projectFile = <<>> /\ project = NULL /\ timingFiles = <<>> /\ analysisFiles = <<>> /\ srtCache = <<>> /\ rmReq = NULL /\ startCue = NULL /\ newEndTime = NULL /\ htmlFiles = <<>> /\ rmFileIdx = 0 /\ rmStatus = 0 /\ rmPc = "idle"

Normalize ==
    /\ nPc = "start"
    /\ nOut' = <<normalize(nText), normalize(normalize(nText))>>
    /\ nPc' = "done"
    /\ UNCHANGED <<nText, simVars, timeVars, beatVars, segVars, renderVars, rematchVars, captureVars, batchVars>>

SpecNormalize == InitNormalize /\ [][Normalize]_vars

(***************************************************************************)
(* similarity() applied to a pair of strings and to (a, a).                *)
(***************************************************************************)
InitSimilarity ==
    /\ simA \in SimInputs
    /\ simB \in SimInputs
    /\ simOut = NULL
    /\ simPc = "start"
    /\ nText = <<>> /\ nOut = NULL /\ nPc = "idle"
    /\ tsInput = <<>> /\ tsOut = NULL /\ tsPc = "idle"
    /\ cues = <<>> /\ cueTexts = <<>> /\ beatTexts = <<>> /\ beatTypes = <<>>
    /\ segStart = NULL /\ segEnd = NULL
    /\ beatIdx = 0 /\ searchStart = 0 /\ mapping = <<>>
    /\ bestIdx = -1 /\ bestScore = RInt(0)
    /\ beatTimes = NULL /\ method = "none" /\ bPc = "idle"
    /\ segments = <<>> /\ cueWordSets = <<>> /\ segIdx = 0 /\ rawMatches = <<>>
    /\ matchedIdxs = <<>> /\ candPos = 0 /\ assigned = <<>>
    /\ segmentMatches = NULL /\ sPc = "idle"
    /\ jobs = <<>> /\ renderAllRunning = FALSE /\ allQueue = 0 /\ allJob = 0
    /\ analyzeAllRunning = FALSE /\ analyzeQueue = 0 /\ analyzeErrors = 0 /\ response = [route |-> "none", status |-> 0] /\ reqParity = 0
    /\ renderBeatTimes = <<>> /\ transitionMs = 0 /\ localBeats = <<>> /\ totalFrames = 0 /\ frame = 0 /\ nextBeatIdx = 0 /\ clickedAt = NULL /\ lastFrame = FALSE /\ clicks = <<>> /\ signalAborted = FALSE /\ cancelReturned = FALSE /\ jobStatus = "none" /\ broadcasts = {} /\ outputFile = "none" /\ rPc = "idle"
    /\ projectFile = <<>> /\ project = NULL /\ timingFiles = <<>> /\ analysisFiles = <<>> /\ srtCache = <<>> /\ rmReq = NULL /\ startCue = NULL /\ newEndTime = NULL /\ htmlFiles = <<>> /\ rmFileIdx = 0 /\ rmStatus = 0 /\ rmPc = "idle"

Similarity ==
    /\ simPc = "start"
    /\ simOut' = <<similarity(simA, simB), similarity(simA, simA)>>
    /\ simPc' = "done"
    /\ UNCHANGED <<simA, simB, textVars, timeVars, beatVars, segVars, renderVars, rematchVars, captureVars, batchVars>>

SpecSimilarity == InitSimilarity /\ [][Similarity]_vars

(***************************************************************************)
(* timeToSeconds() applied to one timestamp.  A timestamp is made of up    *)
(* to MaxParts ':'-separated fields.                                       *)
(***************************************************************************)
MaxParts == 4

TimeFields ==
    { <<>>, <<"0", "0">>, <<"0", "1">>, <<"7">>,
      <<"0", "2", ",", "5", "0", "0">>, <<"0", "2", ".", "5", "0", "0">>,
      <<"x", "1">>, <<"1", "x">> }

RECURSIVE JoinColon(_)
JoinColon(parts) ==
    IF Len(parts) = 1 THEN parts[1]
    ELSE parts[1] \o <<":">> \o JoinColon(Tail(parts))

TimeInputs ==
    {NULL} \cup
    UNION { { JoinColon(parts) : parts \in [1..n -> TimeFields] } : n \in 1..MaxParts }

InitTime ==
    /\ tsInput \in TimeInputs
    /\ tsOut = NULL
    /\ tsPc = "start"
    /\ nText = <<>> /\ nOut = NULL /\ nPc = "idle"
    /\ simA = <<>> /\ simB = <<>> /\ simOut = NULL /\ simPc = "idle"
    /\ cues = <<>> /\ cueTexts = <<>> /\ beatTexts = <<>> /\ beatTypes = <<>>
    /\ segStart = NULL /\ segEnd = NULL
    /\ beatIdx = 0 /\ searchStart = 0 /\ mapping = <<>>
    /\ bestIdx = -1 /\ bestScore = RInt(0)
    /\ beatTimes = NULL /\ method = "none" /\ bPc = "idle"
    /\ segments = <<>> /\ cueWordSets = <<>> /\ segIdx = 0 /\ rawMatches = <<>>
    /\ matchedIdxs = <<>> /\ candPos = 0 /\ assigned = <<>>
    /\ segmentMatches = NULL /\ sPc = "idle"
    /\ jobs = <<>> /\ renderAllRunning = FALSE /\ allQueue = 0 /\ allJob = 0
    /\ analyzeAllRunning = FALSE /\ analyzeQueue = 0 /\ analyzeErrors = 0 /\ response = [route |-> "none", status |-> 0] /\ reqParity = 0
    /\ renderBeatTimes = <<>> /\ transitionMs = 0 /\ localBeats = <<>> /\ totalFrames = 0 /\ frame = 0 /\ nextBeatIdx = 0 /\ clickedAt = NULL /\ lastFrame = FALSE /\ clicks = <<>> /\ signalAborted = FALSE /\ cancelReturned = FALSE /\ jobStatus = "none" /\ broadcasts = {} /\ outputFile = "none" /\ rPc = "idle"
    /\ projectFile = <<>> /\ project = NULL /\ timingFiles = <<>> /\ analysisFiles = <<>> /\ srtCache = <<>> /\ rmReq = NULL /\ startCue = NULL /\ newEndTime = NULL /\ htmlFiles = <<>> /\ rmFileIdx = 0 /\ rmStatus = 0 /\ rmPc = "idle"

TimeToSeconds ==
    /\ tsPc = "start"
    /\ tsOut' = timeToSeconds(tsInput)
    /\ tsPc' = "done"
    /\ UNCHANGED <<tsInput, textVars, simVars, beatVars, segVars, renderVars, rematchVars, captureVars, batchVars>>

SpecTime == InitTime /\ [][TimeToSeconds]_vars

(***************************************************************************)
(* mapSrtToBeatsIntelligent(): forward-only matching of beats to cues.     *)
(* Indices (beatIdx, cueIdx, searchStart) are 0-based as in the source;    *)
(* a null cueIdx is NullIdx.                                               *)
(***************************************************************************)
NullIdx == -1

ContainFloor   == <<1, 4>>      \* 0.25
LabelThreshold == <<2, 25>>     \* 0.08
SpeechThreshold == <<3, 20>>    \* 0.15

\* Math.round(x) for a number x >= 0
RoundInt(x) == (2 * x[1] + x[2]) \div (2 * x[2])

\* A plausible slip: the floor of 0.25 is applied to every cue.
ContainScoreAlways(beatText, text) == RMax(similarity(beatText, text), ContainFloor)

\* similarity(beatText, text), floored at 0.25 when text contains the beat text
\* and the beat text has at least 3 characters
ContainScore(beatText, text) ==
    LET sc == similarity(beatText, text)
    IN  IF Includes(text, beatText) /\ Len(beatText) >= 3
        THEN RMax(sc, ContainFloor) ELSE sc

\* The score of cue cueIdx for a beat: the best of the cue alone and the cue
\* joined with its next one and next two neighbours
CueScore(beatText, texts, cueIdx) ==
    LET n  == Len(texts)
        c1 == texts[cueIdx + 1]
        s1 == ContainScore(beatText, c1)
        s2 == IF cueIdx + 1 < n
              THEN RMax(s1, ContainScore(beatText, JoinSp(c1, texts[cueIdx + 2])))
              ELSE s1
    IN  IF cueIdx + 2 < n
        THEN RMax(s2, ContainScore(beatText,
                 JoinSp(JoinSp(c1, texts[cueIdx + 2]), texts[cueIdx + 3])))
        ELSE s2

\* The loop over cueIdx = from .. cues.length - 1: <<bestIdx, bestScore>>
RECURSIVE BestFrom(_, _, _, _, _)
BestFrom(beatText, texts, cueIdx, bIdx, bScore) ==
    IF cueIdx >= Len(texts) THEN <<bIdx, bScore>>
    ELSE LET score == CueScore(beatText, texts, cueIdx)
         IN  IF RLt(bScore, score)
             THEN BestFrom(beatText, texts, cueIdx + 1, cueIdx, score)
             ELSE BestFrom(beatText, texts, cueIdx + 1, bIdx, bScore)

\* A plausible slip: the scan starts again at the first cue for every beat.
BestMatchFromZero(beatText, texts, from) ==
    BestFrom(beatText, texts, 0, -1, RInt(0))

\* bestIdx and bestScore of a beat, searching the cues at or after `from`
BestMatch(beatText, texts, from) ==
    BestFrom(beatText, texts, from, -1, RInt(0))

\* A plausible slip: every beat is held to the threshold of speech.
ThresholdFixed(beatType) == SpeechThreshold

Threshold(beatType) == IF beatType = "label" THEN LabelThreshold ELSE SpeechThreshold

CueTexts(cs) == [i \in 1..Len(cs) |-> normalize(cs[i].text)]

Unmatched(idx, skip) ==
    [beatIdx |-> idx, cueIdx |-> NullIdx, score |-> 0, time |-> NULL, skipped |-> skip]

(***************************************************************************)
(* interpolateMissing(mapping, cues, segStart, segEnd)                     *)
(***************************************************************************)
\* Nearest index before / after i whose time is known (0 when there is none);
\* the times array is 1-based here
PrevKnown(times, i) ==
    IF \E j \in 1..(i - 1) : times[j] # NULL
    THEN CHOOSE j \in 1..(i - 1) :
            times[j] # NULL /\ \A k \in (j + 1)..(i - 1) : times[k] = NULL
    ELSE 0

NextKnown(times, i) ==
    IF \E j \in (i + 1)..Len(times) : times[j] # NULL
    THEN CHOOSE j \in (i + 1)..Len(times) :
            times[j] # NULL /\ \A k \in (i + 1)..(j - 1) : times[k] = NULL
    ELSE 0

\* A plausible slip: without segStart the floor is 0.
FloorTimeZero(cs, sStart) ==
    IF sStart # NULL THEN sStart ELSE RInt(0)

FloorTime(cs, sStart) ==
    IF sStart # NULL THEN sStart
    ELSE IF Len(cs) > 0 THEN cs[1].startTime ELSE RInt(0)

\* A plausible slip: without cues the ceiling is one second per beat.
CeilTimeOnePerBeat(cs, sEnd, n) ==
    IF sEnd # NULL THEN sEnd
    ELSE IF Len(cs) > 0 THEN cs[Len(cs)].endTime ELSE RInt(n)

CeilTime(cs, sEnd, n) ==
    IF sEnd # NULL THEN sEnd
    ELSE IF Len(cs) > 0 THEN cs[Len(cs)].endTime ELSE RInt(n * 2)

\* A plausible slip: the beats are spread over [floorTime, ceilTime), one
\* step short of ceilTime.
SpreadEvenlyHalfOpen(total, floorTime, ceilTime) ==
    [i \in 1..total |->
        RAdd(floorTime, RMul(Rat(i - 1, total), RSub(ceilTime, floorTime)))]

\* Zero matches: all beats spread evenly over [floorTime, ceilTime]
SpreadEvenly(total, floorTime, ceilTime) ==
    [i \in 1..total |->
        IF total = 1
        THEN RDiv(RAdd(floorTime, ceilTime), RInt(2))
        ELSE RAdd(floorTime, RMul(Rat(i - 1, total - 1), RSub(ceilTime, floorTime)))]

\* A plausible slip: between two known entries the time is their midpoint.
FillOneMidpoint(times, i, floorTime, ceilTime) ==
    LET prevIdx == PrevKnown(times, i)
        nextIdx == NextKnown(times, i)
    IN  IF prevIdx > 0 /\ nextIdx > 0
        THEN RDiv(RAdd(times[prevIdx], times[nextIdx]), RInt(2))
        ELSE IF prevIdx > 0 THEN ceilTime
        ELSE floorTime

\* The time given to the unmatched entry i, from the entries known so far
FillOne(times, i, floorTime, ceilTime) ==
    LET prevIdx == PrevKnown(times, i)
        nextIdx == NextKnown(times, i)
    IN  IF prevIdx > 0 /\ nextIdx > 0
        THEN RAdd(times[prevIdx],
                  RMul(Rat(i - prevIdx, nextIdx - prevIdx),
                       RSub(times[nextIdx], times[prevIdx])))
        ELSE IF prevIdx > 0
        THEN LET unmatchedAfter == Len(times) - prevIdx
                 availableTime  == RSub(ceilTime, times[prevIdx])
                 step == IF unmatchedAfter > 0
                         THEN RDiv(availableTime, RInt(unmatchedAfter)) ELSE RInt(0)
             IN  RAdd(times[prevIdx], RMul(RInt(i - prevIdx), step))
        ELSE IF nextIdx > 0
        THEN LET unmatchedBefore == nextIdx - 1
                 availableTime   == RSub(times[nextIdx], floorTime)
                 step == IF unmatchedBefore > 0
                         THEN RDiv(availableTime, RInt(unmatchedBefore)) ELSE RInt(0)
             IN  RMax(floorTime,
                      RSub(times[nextIdx], RMul(RInt(nextIdx - i), step)))
        ELSE NULL

\* The loop over i: entries are filled in place, so a filled entry counts as
\* known for the entries after it
RECURSIVE FillFrom(_, _, _, _)
FillFrom(times, i, floorTime, ceilTime) ==
    IF i > Len(times) THEN times
    ELSE IF times[i] # NULL THEN FillFrom(times, i + 1, floorTime, ceilTime)
    ELSE FillFrom([times EXCEPT ![i] = FillOne(times, i, floorTime, ceilTime)],
                  i + 1, floorTime, ceilTime)

interpolateMissing(map, cs, sStart, sEnd) ==
    LET times == [i \in 1..Len(map) |->
                    IF map[i].cueIdx # NullIdx THEN map[i].time ELSE NULL]
        floorTime == FloorTime(cs, sStart)
        ceilTime  == CeilTime(cs, sEnd, Len(map))
        hasAnchors == \E i \in 1..Len(times) : times[i] # NULL
        filled == IF hasAnchors
                  THEN FillFrom(times, 1, floorTime, ceilTime)
                  ELSE SpreadEvenly(Len(times), floorTime, ceilTime)
    IN  [i \in 1..Len(filled) |-> RoundMs(filled[i])]

(***************************************************************************)
(* Inputs of the beat aligner.                                             *)
(***************************************************************************)
MaxCues  == 3
MaxBeats == 3

Text_AbCd   == <<"a", "b", " ", "c", "d">>
Text_Ef     == <<"e", "f">>
Text_GhAb   == <<"g", "h", " ", "a", "b">>
Text_AbCdRaw == <<"A", "b", " ", "c", "d", "!">>
Text_Punct  == <<"!", " ">>
Text_Zz     == <<"z", "z">>

\* Cue texts, taken in rotation
CueTextCycle == <<Text_AbCd, Text_Ef, Text_GhAb>>

\* Cue start and end times in seconds: evenly and unevenly spaced transcripts
Timelines ==
    { [i \in 1..(MaxCues + 1) |-> <<RInt(3 * (i - 1)), RInt(3 * (i - 1) + 2)>>],
      [i \in 1..(MaxCues + 1) |-> <<Rat(i * i, 2), Rat(i * i + 1, 2)>>] }

\* The beats Apples, Bananas, Cherries against three cues at 0, 3 and 6 s
Cue_Apples ==
    <<"L", "e", "t", "'", "s", " ", "t", "a", "l",
      "k", " ", "a", "p", "p", "l", "e", "s">>
Cue_Bananas == <<"N", "o", "w", " ", "b", "a", "n", "a", "n", "a", "s">>
Cue_Cherries ==
    <<"F", "i", "n", "a", "l", "l", "y", " ",
      "c", "h", "e", "r", "r", "i", "e", "s">>
Beat_Apples == <<"A", "p", "p", "l", "e", "s">>
Beat_Bananas == <<"B", "a", "n", "a", "n", "a", "s">>
Beat_Cherries == <<"C", "h", "e", "r", "r", "i", "e", "s">>

FruitCues ==
    [i \in 1..3 |->
        [index |-> i, startTime |-> RInt(3 * (i - 1)), endTime |-> RInt(3 * (i - 1) + 2),
         text |-> <<Cue_Apples, Cue_Bananas, Cue_Cherries>>[i]]]

FruitBeats == <<<<Beat_Apples, "none">>, <<Beat_Bananas, "none">>, <<Beat_Cherries, "none">>>>

\* A transcript of one cue of a single letter
LetterCues ==
    <<[index |-> 1, startTime |-> RInt(0), endTime |-> RInt(2), text |-> <<"A">>]>>

CueLists ==
    { [i \in 1..n |->
         [index |-> i, startTime |-> tl[i][1], endTime |-> tl[i][2],
          text |-> CueTextCycle[((i + off) % Len(CueTextCycle)) + 1]]] :
      n \in 0..MaxCues, off \in 0..(Len(CueTextCycle) - 1), tl \in Timelines }
    \cup {FruitCues, LetterCues}

\* A beat: its text and its entry of opts.beatTypes ("none" when absent)
BeatPool ==
    { <<Text_AbCdRaw, "none">>, <<Text_Ef, "label">>, <<Text_Punct, "speech">>,
      <<Text_AbCd, "silent">>, <<Text_Zz, "data">> }

\* Two beats without a cue of their own between two beats that have one
GapBeats ==
    << <<Text_AbCdRaw, "none">>, <<Text_Punct, "speech">>, <<Text_Zz, "none">>,
       <<Text_Ef, "label">> >>

\* A beat whose text spans two cues, then a beat on the second of them
Text_EfGhAb == <<"e", "f", " ", "g", "h", " ", "a", "b">>

SpanBeats == << <<Text_EfGhAb, "none">>, <<Text_GhAb, "none">> >>

\* A text that shares one bigram in seven with the cue "ab cd", first as a
\* beat without a type, then as a label
Text_Weak == <<"a", "b", "q", "r", "s", "t", "u", "v">>

WeakBeats == << <<Text_Weak, "none">>, <<Text_Weak, "label">> >>

BeatLists ==
    UNION { [1..n -> BeatPool] : n \in 0..MaxBeats }
    \cup {FruitBeats, GapBeats, SpanBeats, WeakBeats}

\* opts.segStart, opts.segEnd
SegBoundsPool ==
    { <<NULL, NULL>>, <<RInt(0), RInt(20)>>, <<RInt(4), RInt(5)>>, <<NULL, RInt(1)>>,
      <<RInt(10), RInt(18)>> }

InitBeats ==
    /\ cues \in CueLists
    /\ cueTexts = CueTexts(cues)
    /\ \E bl \in BeatLists :
          /\ beatTexts = [i \in 1..Len(bl) |-> bl[i][1]]
          /\ beatTypes = [i \in 1..Len(bl) |-> bl[i][2]]
    /\ segStart = NULL /\ segEnd = NULL
    /\ beatIdx = 0 /\ searchStart = 0 /\ mapping = <<>>
    /\ bestIdx = -1 /\ bestScore = RInt(0)
    /\ beatTimes = NULL /\ method = "none" /\ bPc = "loop"
    /\ nText = <<>> /\ nOut = NULL /\ nPc = "idle"
    /\ simA = <<>> /\ simB = <<>> /\ simOut = NULL /\ simPc = "idle"
    /\ tsInput = <<>> /\ tsOut = NULL /\ tsPc = "idle"
    /\ segments = <<>> /\ cueWordSets = <<>> /\ segIdx = 0 /\ rawMatches = <<>>
    /\ matchedIdxs = <<>> /\ candPos = 0 /\ assigned = <<>>
    /\ segmentMatches = NULL /\ sPc = "idle"
    /\ jobs = <<>> /\ renderAllRunning = FALSE /\ allQueue = 0 /\ allJob = 0
    /\ analyzeAllRunning = FALSE /\ analyzeQueue = 0 /\ analyzeErrors = 0 /\ response = [route |-> "none", status |-> 0] /\ reqParity = 0
    /\ renderBeatTimes = <<>> /\ transitionMs = 0 /\ localBeats = <<>> /\ totalFrames = 0 /\ frame = 0 /\ nextBeatIdx = 0 /\ clickedAt = NULL /\ lastFrame = FALSE /\ clicks = <<>> /\ signalAborted = FALSE /\ cancelReturned = FALSE /\ jobStatus = "none" /\ broadcasts = {} /\ outputFile = "none" /\ rPc = "idle"
    /\ projectFile = <<>> /\ project = NULL /\ timingFiles = <<>> /\ analysisFiles = <<>> /\ srtCache = <<>> /\ rmReq = NULL /\ startCue = NULL /\ newEndTime = NULL /\ htmlFiles = <<>> /\ rmFileIdx = 0 /\ rmStatus = 0 /\ rmPc = "idle"

\* No beats: fall back to the dumb mapping
Fallback ==
    /\ bPc = "loop"
    /\ Len(beatTexts) = 0
    /\ beatTimes' = [i \in 1..Len(cues) |-> cues[i].startTime]
    /\ mapping' = NULL
    /\ method' = "fallback"
    /\ bPc' = "done"
    /\ UNCHANGED <<cues, cueTexts, beatTexts, beatTypes, segStart, segEnd, beatIdx,
                   searchStart, bestIdx, bestScore>>
    /\ UNCHANGED <<textVars, simVars, timeVars, segVars, renderVars, rematchVars, captureVars, batchVars>>

InLoop == bPc = "loop" /\ beatIdx < Len(beatTexts)

BeatType == beatTypes[beatIdx + 1]
BeatText == normalize(beatTexts[beatIdx + 1])

\* mapping.push(entry) and the loop's beatIdx++
NextBeat(entry) ==
    /\ mapping' = Append(mapping, entry)
    /\ beatIdx' = beatIdx + 1
    /\ bPc' = IF beatIdx + 1 < Len(beatTexts) THEN "loop" ELSE "interpolate"
    /\ UNCHANGED <<cues, cueTexts, beatTexts, beatTypes, segStart, segEnd, beatTimes,
                   method>>
    /\ UNCHANGED <<textVars, simVars, timeVars, segVars, renderVars, rematchVars, captureVars, batchVars>>

\* A plausible slip: the skipped beat is not recorded in the mapping.
SkipBeatNoPush ==
    /\ InLoop
    /\ BeatType \in {"silent", "data"}
    /\ beatIdx' = beatIdx + 1
    /\ bPc' = IF beatIdx + 1 < Len(beatTexts) THEN "loop" ELSE "interpolate"
    /\ UNCHANGED <<cues, cueTexts, beatTexts, beatTypes, segStart, segEnd, beatTimes,
                   method, mapping, searchStart, bestIdx, bestScore>>
    /\ UNCHANGED <<textVars, simVars, timeVars, segVars, renderVars, rematchVars, captureVars, batchVars>>

\* A plausible slip: a skipped beat uses up one cue.
SkipBeatConsumesCue ==
    /\ InLoop
    /\ BeatType \in {"silent", "data"}
    /\ NextBeat(Unmatched(beatIdx, BeatType))
    /\ searchStart' = searchStart + 1
    /\ UNCHANGED <<bestIdx, bestScore>>

\* A silent or data beat is skipped
SkipBeat ==
    /\ InLoop
    /\ BeatType \in {"silent", "data"}
    /\ NextBeat(Unmatched(beatIdx, BeatType))
    /\ UNCHANGED <<searchStart, bestIdx, bestScore>>

\* A beat whose normalized text is empty
EmptyBeat ==
    /\ InLoop
    /\ BeatType \notin {"silent", "data"}
    /\ BeatText = <<>>
    /\ NextBeat(Unmatched(beatIdx, "none"))
    /\ UNCHANGED <<searchStart, bestIdx, bestScore>>

\* The scan of the cues at or after searchStart for the best score
ScanCues ==
    /\ InLoop
    /\ BeatType \notin {"silent", "data"}
    /\ BeatText # <<>>
    /\ LET best == BestMatch(BeatText, cueTexts, searchStart)
       IN  bestIdx' = best[1] /\ bestScore' = best[2]
    /\ bPc' = "decide"
    /\ UNCHANGED <<cues, cueTexts, beatTexts, beatTypes, segStart, segEnd, beatIdx,
                   searchStart, mapping, beatTimes, method>>
    /\ UNCHANGED <<textVars, simVars, timeVars, segVars, renderVars, rematchVars, captureVars, batchVars>>

\* A plausible slip: the beat takes the cue's endTime.
AcceptBeatEndTime ==
    /\ bPc = "decide"
    /\ RLe(Threshold(BeatType), bestScore) /\ bestIdx >= 0
    /\ searchStart' = bestIdx + 1
    /\ NextBeat([beatIdx |-> beatIdx, cueIdx |-> bestIdx,
                 score |-> RoundInt(RMul(bestScore, RInt(100))),
                 time |-> cues[bestIdx + 1].endTime, skipped |-> "none"])
    /\ UNCHANGED <<bestIdx, bestScore>>

\* A plausible slip: the cursor is left on the matched cue.
AcceptBeatKeepCursor ==
    /\ bPc = "decide"
    /\ RLe(Threshold(BeatType), bestScore) /\ bestIdx >= 0
    /\ searchStart' = bestIdx
    /\ NextBeat([beatIdx |-> beatIdx, cueIdx |-> bestIdx,
                 score |-> RoundInt(RMul(bestScore, RInt(100))),
                 time |-> cues[bestIdx + 1].startTime, skipped |-> "none"])
    /\ UNCHANGED <<bestIdx, bestScore>>

\* The best cue reaches the threshold
AcceptBeat ==
    /\ bPc = "decide"
    /\ RLe(Threshold(BeatType), bestScore) /\ bestIdx >= 0
    /\ searchStart' = bestIdx + 1
    /\ NextBeat([beatIdx |-> beatIdx, cueIdx |-> bestIdx,
                 score |-> RoundInt(RMul(bestScore, RInt(100))),
                 time |-> cues[bestIdx + 1].startTime, skipped |-> "none"])
    /\ UNCHANGED <<bestIdx, bestScore>>

\* No cue reaches the threshold
RejectBeat ==
    /\ bPc = "decide"
    /\ ~(RLe(Threshold(BeatType), bestScore) /\ bestIdx >= 0)
    /\ NextBeat(Unmatched(beatIdx, "none"))
    /\ UNCHANGED <<searchStart, bestIdx, bestScore>>

\* beatTimes = interpolateMissing(mapping, cues, segStart, segEnd); opts.segStart
\* and opts.segEnd are read only here, and are drawn when they are read
Interpolate ==
    /\ bPc = "interpolate"
    /\ \E b \in SegBoundsPool :
          /\ segStart' = b[1]
          /\ segEnd' = b[2]
          /\ beatTimes' = interpolateMissing(mapping, cues, b[1], b[2])
    /\ method' = "text-match"
    /\ bPc' = "done"
    /\ UNCHANGED <<cues, cueTexts, beatTexts, beatTypes, beatIdx, searchStart, mapping,
                   bestIdx, bestScore>>
    /\ UNCHANGED <<textVars, simVars, timeVars, segVars, renderVars, rematchVars, captureVars, batchVars>>

NextBeats ==
    \/ Fallback
    \/ SkipBeat \/ EmptyBeat
    \/ ScanCues \/ AcceptBeat \/ RejectBeat
    \/ Interpolate

SpecBeats == InitBeats /\ [][NextBeats]_vars

(***************************************************************************)
(* interpolateMissing() on a mapping without anchors: the beat loop has    *)
(* ended with every beat skipped or unmatched.                             *)
(***************************************************************************)
MaxSpreadBeats == 4

\* The mapping after a loop over n beats that were all skipped as `kind`
\* ("silent", "data"), or all empty ("none")
UnmatchedMapping(n, kind) == [i \in 1..n |-> Unmatched(i - 1, kind)]

InitSpread ==
    /\ cues \in CueLists
    /\ cueTexts = CueTexts(cues)
    /\ \E n \in 1..MaxSpreadBeats, kind \in {"silent", "data", "none"} :
          /\ beatTexts = [i \in 1..n |-> IF kind = "none" THEN Text_Punct ELSE Text_Zz]
          /\ beatTypes = [i \in 1..n |-> kind]
          /\ mapping = UnmatchedMapping(n, kind)
          /\ beatIdx = n
    /\ segStart = NULL /\ segEnd = NULL
    /\ searchStart = 0
    /\ bestIdx = -1 /\ bestScore = RInt(0)
    /\ beatTimes = NULL /\ method = "none" /\ bPc = "interpolate"
    /\ nText = <<>> /\ nOut = NULL /\ nPc = "idle"
    /\ simA = <<>> /\ simB = <<>> /\ simOut = NULL /\ simPc = "idle"
    /\ tsInput = <<>> /\ tsOut = NULL /\ tsPc = "idle"
    /\ segments = <<>> /\ cueWordSets = <<>> /\ segIdx = 0 /\ rawMatches = <<>>
    /\ matchedIdxs = <<>> /\ candPos = 0 /\ assigned = <<>>
    /\ segmentMatches = NULL /\ sPc = "idle"
    /\ jobs = <<>> /\ renderAllRunning = FALSE /\ allQueue = 0 /\ allJob = 0
    /\ analyzeAllRunning = FALSE /\ analyzeQueue = 0 /\ analyzeErrors = 0 /\ response = [route |-> "none", status |-> 0] /\ reqParity = 0
    /\ renderBeatTimes = <<>> /\ transitionMs = 0 /\ localBeats = <<>> /\ totalFrames = 0 /\ frame = 0 /\ nextBeatIdx = 0 /\ clickedAt = NULL /\ lastFrame = FALSE /\ clicks = <<>> /\ signalAborted = FALSE /\ cancelReturned = FALSE /\ jobStatus = "none" /\ broadcasts = {} /\ outputFile = "none" /\ rPc = "idle"
    /\ projectFile = <<>> /\ project = NULL /\ timingFiles = <<>> /\ analysisFiles = <<>> /\ srtCache = <<>> /\ rmReq = NULL /\ startCue = NULL /\ newEndTime = NULL /\ htmlFiles = <<>> /\ rmFileIdx = 0 /\ rmStatus = 0 /\ rmPc = "idle"

SpecSpread == InitSpread /\ [][Interpolate]_vars

(***************************************************************************)
(* mapSrtToSegments(): best cue window per segment (pass 1), conflict      *)
(* resolution by confidence (pass 2), timing.  The htmlFiles of a segment  *)
(* are passed through untouched and are left out.                          *)
(***************************************************************************)
stopWords ==
    { <<"t", "h", "e">>, <<"a">>, <<"a", "n">>, <<"i", "s">>, <<"i", "t">>,
      <<"i", "n">>, <<"o", "n">>, <<"t", "o">>, <<"o", "f">>, <<"a", "n", "d">>,
      <<"o", "r">>, <<"b", "u", "t">>, <<"t", "h", "a", "t">>,
      <<"t", "h", "i", "s">>, <<"w", "i", "t", "h">>, <<"f", "o", "r">>,
      <<"n", "o", "t">>, <<"a", "r", "e">>, <<"w", "a", "s">>, <<"b", "e">>,
      <<"h", "a", "s">>, <<"h", "a", "d">>, <<"d", "o">>, <<"d", "o", "e", "s">>,
      <<"d", "i", "d">>, <<"w", "i", "l", "l">>, <<"w", "o", "u", "l", "d">>,
      <<"c", "o", "u", "l", "d">>, <<"s", "h", "o", "u", "l", "d">>,
      <<"c", "a", "n">>, <<"m", "a", "y">>, <<"i">>, <<"y", "o", "u">>, <<"h", "e">>,
      <<"s", "h", "e">>, <<"w", "e">>, <<"t", "h", "e", "y">>, <<"m", "y">>,
      <<"y", "o", "u", "r">>, <<"h", "i", "s">>, <<"h", "e", "r">>,
      <<"o", "u", "r">>, <<"t", "h", "e", "i", "r">>, <<"i", "t", "s">>,
      <<"i", "f">>, <<"s", "o">>, <<"a", "t">>, <<"b", "y">>, <<"f", "r", "o", "m">>,
      <<"u", "p">>, <<"o", "u", "t">>, <<"n", "o">>, <<"y", "e", "s">>,
      <<"j", "u", "s", "t">>, <<"a", "l", "l">>, <<"m", "o", "r", "e">>,
      <<"s", "o", "m", "e">>, <<"t", "h", "a", "n">>, <<"t", "h", "e", "n">>,
      <<"w", "h", "e", "n">>, <<"w", "h", "a", "t">>, <<"h", "o", "w">>,
      <<"a", "b", "o", "u", "t">>, <<"i", "n", "t", "o">>, <<"o", "v", "e", "r">>,
      <<"a", "f", "t", "e", "r">>, <<"b", "e", "f", "o", "r", "e">>,
      <<"b", "e", "t", "w", "e", "e", "n">>, <<"t", "h", "r", "o", "u", "g", "h">> }

MinScriptLen       == 10      \* scriptNorm.length < 10
WindowCap          == 40      \* end < start + 40
NoImprovementLimit == 10      \* noImprovementCount > 10
SegmentGap         == 3       \* const gap = 3

SrtWeight     == <<3, 5>>     \* 0.6
ScriptWeight  == <<2, 5>>     \* 0.4
MatchMinScore == <<1, 4>>     \* 0.25

\* contentWords(wordSet)
contentWords(wordSet) == { w \in wordSet : Len(w) > 2 /\ w \notin stopWords }

\* The score of a window of cues against a script
WindowScore(windowWords, windowContentWords, scriptWordsFull, scriptWordsContent) ==
    LET srtCoverage ==
            Rat(Cardinality(windowContentWords \cap scriptWordsFull),
                Cardinality(windowContentWords))
        scriptCoverage ==
            IF Cardinality(scriptWordsContent) > 0
            THEN Rat(Cardinality(scriptWordsContent \cap windowWords),
                     Cardinality(scriptWordsContent))
            ELSE RInt(0)
    IN  RAdd(RMul(srtCoverage, SrtWeight), RMul(scriptCoverage, ScriptWeight))

\* The loop over end for one start.  st holds windowWords, peakScore,
\* noImprovementCount and the best window so far.
RECURSIVE ExpandWindow(_, _, _, _, _, _)
ExpandWindow(start, end, st, wordSets, scriptWordsFull, scriptWordsContent) ==
    IF ~(end < Len(wordSets) /\ end < start + WindowCap) THEN st
    ELSE
      LET windowWords == st.windowWords \cup wordSets[end + 1]
          windowContentWords == contentWords(windowWords)
      IN  IF windowContentWords = {}
          THEN ExpandWindow(start, end + 1, [st EXCEPT !.windowWords = windowWords],
                            wordSets, scriptWordsFull, scriptWordsContent)
          ELSE
            LET score == WindowScore(windowWords, windowContentWords,
                                     scriptWordsFull, scriptWordsContent)
                improved == RLt(st.peakScore, score)
                better   == RLt(st.bestScore, score)
                st2 == [windowWords |-> windowWords,
                        peakScore |-> IF improved THEN score ELSE st.peakScore,
                        noImprovementCount |->
                            IF improved THEN 0 ELSE st.noImprovementCount + 1,
                        bestScore |-> IF better THEN score ELSE st.bestScore,
                        bestStart |-> IF better THEN start ELSE st.bestStart,
                        bestEnd   |-> IF better THEN end ELSE st.bestEnd]
            IN  IF st2.noImprovementCount > NoImprovementLimit THEN st2
                ELSE ExpandWindow(start, end + 1, st2,
                                  wordSets, scriptWordsFull, scriptWordsContent)

\* The loop over start: <<bestScore, bestStart, bestEnd>>, replaced by the
\* windows of a start that raised bestScore
RECURSIVE BestWindowFrom(_, _, _, _, _)
BestWindowFrom(start, best, wordSets, scriptWordsFull, scriptWordsContent) ==
    IF start >= Len(wordSets) THEN best
    ELSE
      LET st == ExpandWindow(start, start,
                    [windowWords |-> {}, peakScore |-> RInt(0), noImprovementCount |-> 0,
                     bestScore |-> best[1], bestStart |-> best[2], bestEnd |-> best[3]],
                    wordSets, scriptWordsFull, scriptWordsContent)
      IN  IF RLt(best[1], st.bestScore)
          THEN BestWindowFrom(start + 1, <<st.bestScore, st.bestStart, st.bestEnd>>,
                              wordSets, scriptWordsFull, scriptWordsContent)
          ELSE BestWindowFrom(start + 1, best,
                              wordSets, scriptWordsFull, scriptWordsContent)

\* cueTextsNorm.map(t => new Set(t.split(' ').filter(Boolean)))
CueWordSets(cs) == [i \in 1..Len(cs) |-> WordSet(normalize(cs[i].text))]

\* !scriptNorm || scriptNorm.length < 10
IsShortScript(scriptNorm) == scriptNorm = <<>> \/ Len(scriptNorm) < MinScriptLen

\* Pass 1, the raw match of a segment whose script is too short
UnmatchedRaw(seg) ==
    [num |-> seg.num, matched |-> FALSE, confidence |-> 0,
     startCueIdx |-> NullIdx, endCueIdx |-> NullIdx]

\* A plausible slip: a score of exactly 0.25 is not enough.
WindowRawStrict(seg, scriptNorm, wordSets) ==
    LET scriptWordsFull == WordSet(scriptNorm)
        best == BestWindowFrom(0, <<RInt(0), -1, -1>>, wordSets,
                               scriptWordsFull, contentWords(scriptWordsFull))
        matched == RLt(MatchMinScore, best[1]) /\ best[2] >= 0
    IN  [num |-> seg.num, matched |-> matched,
         confidence |-> RoundInt(RMul(best[1], RInt(100))),
         startCueIdx |-> IF matched THEN best[2] ELSE NullIdx,
         endCueIdx   |-> IF matched THEN best[3] ELSE NullIdx]

\* Pass 1, the raw match of a segment from its best window of cues
WindowRaw(seg, scriptNorm, wordSets) ==
    LET scriptWordsFull == WordSet(scriptNorm)
        best == BestWindowFrom(0, <<RInt(0), -1, -1>>, wordSets,
                               scriptWordsFull, contentWords(scriptWordsFull))
        matched == RLe(MatchMinScore, best[1]) /\ best[2] >= 0
    IN  [num |-> seg.num, matched |-> matched,
         confidence |-> RoundInt(RMul(best[1], RInt(100))),
         startCueIdx |-> IF matched THEN best[2] ELSE NullIdx,
         endCueIdx   |-> IF matched THEN best[3] ELSE NullIdx]

\* A plausible slip: the comparator is a.confidence - b.confidence, ascending.
RECURSIVE InsertByConfidenceAscending(_, _, _)
InsertByConfidenceAscending(sorted, idx, raw) ==
    IF sorted = <<>> THEN <<idx>>
    ELSE IF raw[Head(sorted) + 1].confidence <= raw[idx + 1].confidence
         THEN <<Head(sorted)>> \o InsertByConfidenceAscending(Tail(sorted), idx, raw)
         ELSE <<idx>> \o sorted

\* .sort((a, b) => b.confidence - a.confidence): stable, descending
RECURSIVE InsertByConfidence(_, _, _)
InsertByConfidence(sorted, idx, raw) ==
    IF sorted = <<>> THEN <<idx>>
    ELSE IF raw[Head(sorted) + 1].confidence >= raw[idx + 1].confidence
         THEN <<Head(sorted)>> \o InsertByConfidence(Tail(sorted), idx, raw)
         ELSE <<idx>> \o sorted

RECURSIVE SortByConfidence(_, _, _)
SortByConfidence(sorted, i, raw) ==
    IF i >= Len(raw) THEN sorted
    ELSE SortByConfidence(
             IF raw[i + 1].matched THEN InsertByConfidence(sorted, i, raw) ELSE sorted,
             i + 1, raw)

\* rawMatches.map((m, i) => ({ idx: i, ...m })).filter(...).sort(...): copies of
\* the matched entries with their positions, by descending confidence
MatchedIdxs(raw) ==
    LET order == SortByConfidence(<<>>, 0, raw)
    IN  [k \in 1..Len(order) |->
            [idx |-> order[k],
             confidence  |-> raw[order[k] + 1].confidence,
             startCueIdx |-> raw[order[k] + 1].startCueIdx,
             endCueIdx   |-> raw[order[k] + 1].endCueIdx]]

\* A plausible slip: only the earlier segments are checked against the range.
RangeValidEarlierOnly(idx, range, asg) ==
    \A i \in 0..(Len(asg) - 1) :
        asg[i + 1] # NULL => (i < idx => ~(asg[i + 1][2] >= range[1]))

\* A plausible slip: ranges that share their boundary cue are let through.
RangeValidNonStrict(idx, range, asg) ==
    \A i \in 0..(Len(asg) - 1) :
        asg[i + 1] # NULL =>
            /\ i < idx => ~(asg[i + 1][2] > range[1])
            /\ i > idx => ~(asg[i + 1][1] < range[2])

\* Pass 2: may the segment at position idx take the cue range <<start, end>>?
RangeValid(idx, range, asg) ==
    \A i \in 0..(Len(asg) - 1) :
        asg[i + 1] # NULL =>
            /\ i < idx => ~(asg[i + 1][2] >= range[1])
            /\ i > idx => ~(asg[i + 1][1] <= range[2])

(***************************************************************************)
(* interpolateSegmentTiming(matches)                                       *)
(***************************************************************************)
PrevTimed(ms, i) ==
    IF \E j \in 1..(i - 1) : ms[j].startTime # NULL
    THEN CHOOSE j \in 1..(i - 1) :
            ms[j].startTime # NULL /\ \A k \in (j + 1)..(i - 1) : ms[k].startTime = NULL
    ELSE 0

NextTimed(ms, i) ==
    IF \E j \in (i + 1)..Len(ms) : ms[j].startTime # NULL
    THEN CHOOSE j \in (i + 1)..Len(ms) :
            ms[j].startTime # NULL /\ \A k \in (i + 1)..(j - 1) : ms[k].startTime = NULL
    ELSE 0

\* <<startTime, endTime>> given to the untimed entry i (1-based), from the
\* entries timed so far
SegmentTimes(ms, i) ==
    LET prevIdx == PrevTimed(ms, i)
        nextIdx == NextTimed(ms, i)
        gap == RInt(SegmentGap)
    IN  IF prevIdx > 0 /\ nextIdx > 0
        THEN LET span == nextIdx - prevIdx
                 prevEnd == ms[prevIdx].endTime
                 nextStart == ms[nextIdx].startTime
             IN  <<RAdd(prevEnd, RMul(Rat(i - prevIdx, span), RSub(nextStart, prevEnd))),
                   RAdd(prevEnd, RMul(Rat(i - prevIdx + 1, span), RSub(nextStart, prevEnd)))>>
        ELSE IF prevIdx > 0
        THEN LET st == RAdd(ms[prevIdx].endTime, RMul(RInt(i - prevIdx), gap))
             IN  <<st, RAdd(st, gap)>>
        ELSE IF nextIdx > 0
        THEN LET st == RMax(RInt(0),
                            RSub(ms[nextIdx].startTime, RMul(RInt(nextIdx - i), gap)))
             IN  <<st, RAdd(st, gap)>>
        ELSE <<RInt((i - 1) * SegmentGap), RInt(i * SegmentGap)>>

\* The loop over i: entries are timed in place
RECURSIVE TimeFrom(_, _)
TimeFrom(ms, i) ==
    IF i > Len(ms) THEN ms
    ELSE IF ms[i].startTime # NULL THEN TimeFrom(ms, i + 1)
    ELSE LET t == SegmentTimes(ms, i)
         IN  TimeFrom([ms EXCEPT ![i].startTime = t[1], ![i].endTime = t[2]], i + 1)

interpolateSegmentTiming(matches) == TimeFrom(matches, 1)

\* The final results with timing, before interpolation
BuildSegmentMatches(raw, cs) ==
    [i \in 1..Len(raw) |->
        [num |-> raw[i].num, matched |-> raw[i].matched,
         confidence |-> raw[i].confidence,
         startCueIdx |-> raw[i].startCueIdx, endCueIdx |-> raw[i].endCueIdx,
         startTime |-> IF raw[i].startCueIdx # NullIdx
                       THEN cs[raw[i].startCueIdx + 1].startTime ELSE NULL,
         endTime   |-> IF raw[i].endCueIdx # NullIdx
                       THEN cs[raw[i].endCueIdx + 1].endTime ELSE NULL]]

(***************************************************************************)
(* Inputs of the segment matcher.                                          *)
(***************************************************************************)
MaxSegCues == 3
MaxSegs    == 3

Cue_AlphaBeta == <<"a", "l", "p", "h", "a", " ", "b", "e", "t", "a">>
Cue_GammaDelta == <<"g", "a", "m", "m", "a", " ", "d", "e", "l", "t", "a">>
Cue_TheAlpha == <<"t", "h", "e", " ", "a", "l", "p", "h", "a">>
Script_AlphaBeta == <<"A", "l", "p", "h", "a", " ", "b", "e", "t", "a", ".">>
Script_All ==
    <<"a", "l", "p", "h", "a", " ", "b", "e", "t", "a", " ",
      "g", "a", "m", "m", "a", " ", "d", "e", "l", "t", "a">>
Script_AlphaZeta == <<"a", "l", "p", "h", "a", " ", "z", "e", "t", "a">>
Script_Short == <<"t", "o", "o", " ", "s", "h", "o", "r", "t">>

\* Cue texts, taken in rotation
SegCueCycle == <<Cue_AlphaBeta, Cue_GammaDelta, Cue_TheAlpha>>

\* Cue times are non-decreasing and do not overlap
SegTimelines ==
    { [i \in 1..(MaxSegCues + 1) |-> <<RInt(3 * (i - 1)), RInt(3 * (i - 1) + 2)>>],
      [i \in 1..(MaxSegCues + 1) |-> <<Rat(i * i, 2), Rat(i * i + 1, 2)>>] }

\* A long transcript: one cue of content words, then cues of a stop word only
FillerCues == NoImprovementLimit + 1

Cue_The == <<"t", "h", "e">>

LongCues ==
    [i \in 1..(1 + FillerCues) |->
        [index |-> i, startTime |-> RInt(3 * (i - 1)), endTime |-> RInt(3 * (i - 1) + 2),
         text |-> IF i = 1 THEN Cue_GammaDelta ELSE Cue_The]]

\* Two cues that each hold one word of a script among four other content
\* words, with the filler cues between them
Cue_AlphaJunk ==
    <<"a", "l", "p", "h", "a", " ", "r", "e", "d", " ", "b", "o", "x", " ",
      "c", "a", "r", " ", "s", "u", "n">>
Cue_BetaJunk ==
    <<"b", "e", "t", "a", " ", "r", "e", "d", " ", "b", "o", "x", " ",
      "c", "a", "r", " ", "s", "u", "n">>

SplitCuesOf(fillers) ==
    [i \in 1..(2 + fillers) |->
        [index |-> i, startTime |-> RInt(3 * (i - 1)), endTime |-> RInt(3 * (i - 1) + 2),
         text |-> IF i = 1 THEN Cue_AlphaJunk
                  ELSE IF i = 2 + fillers THEN Cue_BetaJunk ELSE Cue_The]]

\* The second cue is the first one the search from the first cue leaves out
SplitCues == SplitCuesOf(FillerCues)

\* The second cue is the last one the search from the first cue evaluates
NearCues == SplitCuesOf(FillerCues - 1)

\* One cue with one word of a script among four content words
Cue_AlphaRedBoxCar ==
    <<"a", "l", "p", "h", "a", " ", "r", "e", "d", " ", "b", "o", "x", " ", "c", "a", "r">>

BoundaryCues ==
    << [index |-> 1, startTime |-> RInt(0), endTime |-> RInt(2), text |-> Cue_AlphaRedBoxCar] >>

SegCueLists ==
    { [i \in 1..n |->
         [index |-> i, startTime |-> tl[i][1], endTime |-> tl[i][2],
          text |-> SegCueCycle[((i + off) % Len(SegCueCycle)) + 1]]] :
      n \in 0..MaxSegCues, off \in 0..(Len(SegCueCycle) - 1), tl \in SegTimelines }
    \cup {LongCues, SplitCues, NearCues, BoundaryCues}

ScriptPool ==
    { Script_AlphaBeta, Script_All, Script_AlphaZeta, Script_Short }

\* Two short scripts between two scripts that each match a cue of their own
Script_GammaDelta == <<"g", "a", "m", "m", "a", " ", "d", "e", "l", "t", "a", ".">>

GapScripts == <<Script_AlphaBeta, Script_Short, Script_Short, Script_GammaDelta>>

GapSegments == [i \in 1..Len(GapScripts) |-> [num |-> i, script |-> GapScripts[i]]]

SegmentLists ==
    UNION { { [i \in 1..n |-> [num |-> i, script |-> f[i]]] : f \in [1..n -> ScriptPool] } :
            n \in 0..MaxSegs }
    \cup {GapSegments}

InitSegments ==
    /\ cues \in SegCueLists
    /\ segments \in SegmentLists
    /\ cueWordSets = <<>>
    /\ segIdx = 0 /\ rawMatches = <<>>
    /\ matchedIdxs = <<>> /\ candPos = 0 /\ assigned = <<>>
    /\ segmentMatches = NULL /\ sPc = "start"
    /\ jobs = <<>> /\ renderAllRunning = FALSE /\ allQueue = 0 /\ allJob = 0
    /\ analyzeAllRunning = FALSE /\ analyzeQueue = 0 /\ analyzeErrors = 0 /\ response = [route |-> "none", status |-> 0] /\ reqParity = 0
    /\ renderBeatTimes = <<>> /\ transitionMs = 0 /\ localBeats = <<>> /\ totalFrames = 0 /\ frame = 0 /\ nextBeatIdx = 0 /\ clickedAt = NULL /\ lastFrame = FALSE /\ clicks = <<>> /\ signalAborted = FALSE /\ cancelReturned = FALSE /\ jobStatus = "none" /\ broadcasts = {} /\ outputFile = "none" /\ rPc = "idle"
    /\ projectFile = <<>> /\ project = NULL /\ timingFiles = <<>> /\ analysisFiles = <<>> /\ srtCache = <<>> /\ rmReq = NULL /\ startCue = NULL /\ newEndTime = NULL /\ htmlFiles = <<>> /\ rmFileIdx = 0 /\ rmStatus = 0 /\ rmPc = "idle"
    /\ cueTexts = <<>> /\ beatTexts = <<>> /\ beatTypes = <<>>
    /\ segStart = NULL /\ segEnd = NULL
    /\ beatIdx = 0 /\ searchStart = 0 /\ mapping = <<>>
    /\ bestIdx = -1 /\ bestScore = RInt(0)
    /\ beatTimes = NULL /\ method = "none" /\ bPc = "idle"
    /\ nText = <<>> /\ nOut = NULL /\ nPc = "idle"
    /\ simA = <<>> /\ simB = <<>> /\ simOut = NULL /\ simPc = "idle"
    /\ tsInput = <<>> /\ tsOut = NULL /\ tsPc = "idle"

\* The cues are normalized and the word set of each is built
BuildCueWordSets ==
    /\ sPc = "start"
    /\ cueWordSets' = CueWordSets(cues)
    /\ sPc' = "pass1"
    /\ UNCHANGED <<segments, segIdx, rawMatches, matchedIdxs, candPos, assigned,
                   segmentMatches>>
    /\ UNCHANGED <<textVars, simVars, timeVars, beatVars, renderVars, rematchVars, captureVars, batchVars>>

\* Pass 1, a script of fewer than 10 normalized characters: unmatched
ShortScript ==
    /\ sPc = "pass1" /\ segIdx < Len(segments)
    /\ IsShortScript(normalize(segments[segIdx + 1].script))
    /\ rawMatches' = Append(rawMatches, UnmatchedRaw(segments[segIdx + 1]))
    /\ segIdx' = segIdx + 1
    /\ UNCHANGED <<segments, cueWordSets, matchedIdxs, candPos, assigned,
                   segmentMatches, sPc>>
    /\ UNCHANGED <<textVars, simVars, timeVars, beatVars, renderVars, rematchVars, captureVars, batchVars>>

\* Pass 1, the search for the best window of cues for one segment
SearchWindow ==
    /\ sPc = "pass1" /\ segIdx < Len(segments)
    /\ LET scriptNorm == normalize(segments[segIdx + 1].script)
       IN  /\ ~IsShortScript(scriptNorm)
           /\ rawMatches' = Append(rawMatches,
                                 WindowRaw(segments[segIdx + 1], scriptNorm, cueWordSets))
    /\ segIdx' = segIdx + 1
    /\ UNCHANGED <<segments, cueWordSets, matchedIdxs, candPos, assigned,
                   segmentMatches, sPc>>
    /\ UNCHANGED <<textVars, simVars, timeVars, beatVars, renderVars, rematchVars, captureVars, batchVars>>

\* Pass 2 begins: the matched segments sorted by confidence, nothing assigned
SortCandidates ==
    /\ sPc = "pass1" /\ segIdx = Len(segments)
    /\ matchedIdxs' = MatchedIdxs(rawMatches)
    /\ assigned' = [i \in 1..Len(segments) |-> NULL]
    /\ candPos' = 0
    /\ sPc' = "pass2"
    /\ UNCHANGED <<segments, cueWordSets, segIdx, rawMatches, segmentMatches>>
    /\ UNCHANGED <<textVars, simVars, timeVars, beatVars, renderVars, rematchVars, captureVars, batchVars>>

Candidate      == matchedIdxs[candPos + 1].idx
CandidateRange == <<matchedIdxs[candPos + 1].startCueIdx, matchedIdxs[candPos + 1].endCueIdx>>

\* Pass 2: the candidate's range conflicts with no assigned range
AcceptRange ==
    /\ sPc = "pass2" /\ candPos < Len(matchedIdxs)
    /\ RangeValid(Candidate, CandidateRange, assigned)
    /\ assigned' = [assigned EXCEPT ![Candidate + 1] = CandidateRange]
    /\ candPos' = candPos + 1
    /\ UNCHANGED <<segments, cueWordSets, segIdx, rawMatches, matchedIdxs, segmentMatches, sPc>>
    /\ UNCHANGED <<textVars, simVars, timeVars, beatVars, renderVars, rematchVars, captureVars, batchVars>>

\* Pass 2: the candidate's range conflicts; the segment becomes unmatched
RejectRange ==
    /\ sPc = "pass2" /\ candPos < Len(matchedIdxs)
    /\ ~RangeValid(Candidate, CandidateRange, assigned)
    /\ rawMatches' = [rawMatches EXCEPT ![Candidate + 1].matched = FALSE,
                                        ![Candidate + 1].startCueIdx = NullIdx,
                                        ![Candidate + 1].endCueIdx = NullIdx]
    /\ candPos' = candPos + 1
    /\ UNCHANGED <<segments, cueWordSets, segIdx, matchedIdxs, assigned, segmentMatches, sPc>>
    /\ UNCHANGED <<textVars, simVars, timeVars, beatVars, renderVars, rematchVars, captureVars, batchVars>>

\* The final results: cue times for the matched segments, interpolated times
\* for the others
BuildResults ==
    /\ sPc = "pass2" /\ candPos = Len(matchedIdxs)
    /\ segmentMatches' = interpolateSegmentTiming(BuildSegmentMatches(rawMatches, cues))
    /\ sPc' = "done"
    /\ UNCHANGED <<segments, cueWordSets, segIdx, rawMatches, matchedIdxs, candPos, assigned>>
    /\ UNCHANGED <<textVars, simVars, timeVars, beatVars, renderVars, rematchVars, captureVars, batchVars>>

NextSegments ==
    \/ BuildCueWordSets
    \/ ShortScript \/ SearchWindow
    \/ SortCandidates
    \/ AcceptRange \/ RejectRange
    \/ BuildResults

SpecSegments == InitSegments /\ [][NextSegments]_vars

(***************************************************************************)
(* One run of either aligner on the same transcript: the empty transcript, *)
(* a transcript the beats match, a transcript the segments match.          *)
(***************************************************************************)
AlphaCues ==
    <<[index |-> 1, startTime |-> RInt(0), endTime |-> RInt(2), text |-> Cue_AlphaBeta]>>

RunCueLists == { <<>>, FruitCues, AlphaCues }

InitRuns ==
    /\ cues \in RunCueLists
    /\ \E run \in {"beats", "segments"} :
          /\ \E bl \in (IF run = "beats" THEN BeatLists ELSE {<<>>}) :
                /\ beatTexts = [i \in 1..Len(bl) |-> bl[i][1]]
                /\ beatTypes = [i \in 1..Len(bl) |-> bl[i][2]]
          /\ segments \in (IF run = "segments" THEN SegmentLists ELSE {<<>>})
          /\ cueTexts = IF run = "beats" THEN CueTexts(cues) ELSE <<>>
          /\ bPc = IF run = "beats" THEN "loop" ELSE "idle"
          /\ sPc = IF run = "segments" THEN "start" ELSE "idle"
    /\ segStart = NULL /\ segEnd = NULL
    /\ beatIdx = 0 /\ searchStart = 0 /\ mapping = <<>>
    /\ bestIdx = -1 /\ bestScore = RInt(0)
    /\ beatTimes = NULL /\ method = "none"
    /\ cueWordSets = <<>> /\ segIdx = 0 /\ rawMatches = <<>>
    /\ matchedIdxs = <<>> /\ candPos = 0 /\ assigned = <<>>
    /\ segmentMatches = NULL
    /\ jobs = <<>> /\ renderAllRunning = FALSE /\ allQueue = 0 /\ allJob = 0
    /\ analyzeAllRunning = FALSE /\ analyzeQueue = 0 /\ analyzeErrors = 0 /\ response = [route |-> "none", status |-> 0] /\ reqParity = 0
    /\ renderBeatTimes = <<>> /\ transitionMs = 0 /\ localBeats = <<>> /\ totalFrames = 0 /\ frame = 0 /\ nextBeatIdx = 0 /\ clickedAt = NULL /\ lastFrame = FALSE /\ clicks = <<>> /\ signalAborted = FALSE /\ cancelReturned = FALSE /\ jobStatus = "none" /\ broadcasts = {} /\ outputFile = "none" /\ rPc = "idle"
    /\ projectFile = <<>> /\ project = NULL /\ timingFiles = <<>> /\ analysisFiles = <<>> /\ srtCache = <<>> /\ rmReq = NULL /\ startCue = NULL /\ newEndTime = NULL /\ htmlFiles = <<>> /\ rmFileIdx = 0 /\ rmStatus = 0 /\ rmPc = "idle"
    /\ nText = <<>> /\ nOut = NULL /\ nPc = "idle"
    /\ simA = <<>> /\ simB = <<>> /\ simOut = NULL /\ simPc = "idle"
    /\ tsInput = <<>> /\ tsOut = NULL /\ tsPc = "idle"

NextRuns ==
    \/ Fallback
    \/ SkipBeat \/ EmptyBeat
    \/ ScanCues \/ AcceptBeat \/ RejectBeat
    \/ Interpolate
    \/ BuildCueWordSets
    \/ ShortScript \/ SearchWindow
    \/ SortCandidates
    \/ AcceptRange \/ RejectRange
    \/ BuildResults

SpecRuns == InitRuns /\ [][NextRuns]_vars

(***************************************************************************)
(* The render jobs: startRender() of renderer.js and the routes            *)
(* POST /api/render, /api/render/variants, /api/render/all and             *)
(* /api/render/:id/cancel.  Requests answered with 400, 404 or 409 change  *)
(* nothing but the response; NextRender leaves them out.  The number of    *)
(* jobs ever started is capped.                                            *)
(***************************************************************************)
MaxJobs     == 4
MaxVariants == 3      \* files of one variants request
MaxItems    == 3      \* files of one render-all request

\* startRender: n new jobs in status 'running', with ids jobCounter + 1 ...
StartedJobs(js, n) == js \o [i \in 1..n |-> [status |-> "running", aborted |-> FALSE]]

Running == { id \in 1..Len(jobs) : jobs[id].status = "running" }

InitRender ==
    /\ jobs = <<>> /\ renderAllRunning = FALSE /\ allQueue = 0 /\ allJob = 0
    /\ analyzeAllRunning = FALSE /\ analyzeQueue = 0 /\ analyzeErrors = 0 /\ response = [route |-> "none", status |-> 0] /\ reqParity = 0
    /\ renderBeatTimes = <<>> /\ transitionMs = 0 /\ localBeats = <<>> /\ totalFrames = 0 /\ frame = 0 /\ nextBeatIdx = 0 /\ clickedAt = NULL /\ lastFrame = FALSE /\ clicks = <<>> /\ signalAborted = FALSE /\ cancelReturned = FALSE /\ jobStatus = "none" /\ broadcasts = {} /\ outputFile = "none" /\ rPc = "idle"
    /\ projectFile = <<>> /\ project = NULL /\ timingFiles = <<>> /\ analysisFiles = <<>> /\ srtCache = <<>> /\ rmReq = NULL /\ startCue = NULL /\ newEndTime = NULL /\ htmlFiles = <<>> /\ rmFileIdx = 0 /\ rmStatus = 0 /\ rmPc = "idle"
    /\ nText = <<>> /\ nOut = NULL /\ nPc = "idle"
    /\ simA = <<>> /\ simB = <<>> /\ simOut = NULL /\ simPc = "idle"
    /\ tsInput = <<>> /\ tsOut = NULL /\ tsPc = "idle"
    /\ cues = <<>> /\ cueTexts = <<>> /\ beatTexts = <<>> /\ beatTypes = <<>>
    /\ segStart = NULL /\ segEnd = NULL
    /\ beatIdx = 0 /\ searchStart = 0 /\ mapping = <<>>
    /\ bestIdx = -1 /\ bestScore = RInt(0)
    /\ beatTimes = NULL /\ method = "none" /\ bPc = "idle"
    /\ segments = <<>> /\ cueWordSets = <<>> /\ segIdx = 0 /\ rawMatches = <<>>
    /\ matchedIdxs = <<>> /\ candPos = 0 /\ assigned = <<>>
    /\ segmentMatches = NULL /\ sPc = "idle"

\* POST /api/render: one job is started
PostRender ==
    /\ Len(jobs) + 1 + allQueue <= MaxJobs
    /\ jobs' = StartedJobs(jobs, 1)
    /\ UNCHANGED <<renderAllRunning, allQueue, allJob>>
    /\ UNCHANGED <<textVars, simVars, timeVars, beatVars, segVars, rematchVars, captureVars, batchVars>>

\* POST /api/render/variants: one job per file name, all started in the handler
PostVariants ==
    /\ \E n \in 2..MaxVariants :
          /\ Len(jobs) + n + allQueue <= MaxJobs
          /\ jobs' = StartedJobs(jobs, n)
    /\ UNCHANGED <<renderAllRunning, allQueue, allJob>>
    /\ UNCHANGED <<textVars, simVars, timeVars, beatVars, segVars, rematchVars, captureVars, batchVars>>

\* The response to a request to a batch route
Respond(route, status) ==
    /\ response' = [route |-> route, status |-> status]
    /\ reqParity' = 1 - reqParity

\* A plausible slip: the route does not look at the flag.
PostAllUnguarded ==
    /\ \E n \in 1..MaxItems :
          /\ Len(jobs) + n + allQueue <= MaxJobs
          /\ renderAllRunning' = TRUE
          /\ jobs' = StartedJobs(jobs, 1)
          /\ allJob' = Len(jobs) + 1
          /\ allQueue' = allQueue + n - 1
    /\ Respond("render-all", 200)
    /\ UNCHANGED <<analyzeAllRunning, analyzeQueue, analyzeErrors>>
    /\ UNCHANGED <<textVars, simVars, timeVars, beatVars, segVars, rematchVars, captureVars>>

\* POST /api/render/all: the flag is set and runRenderAll runs up to its first
\* await, that is, it starts the job of the first render item.  The jobs of
\* the items still to come are counted against the cap.
PostAll ==
    /\ ~renderAllRunning
    /\ \E n \in 1..MaxItems :
          /\ Len(jobs) + n <= MaxJobs
          /\ renderAllRunning' = TRUE
          /\ jobs' = StartedJobs(jobs, 1)
          /\ allJob' = Len(jobs) + 1
          /\ allQueue' = n - 1
    /\ Respond("render-all", 200)
    /\ UNCHANGED <<analyzeAllRunning, analyzeQueue, analyzeErrors>>
    /\ UNCHANGED <<textVars, simVars, timeVars, beatVars, segVars, rematchVars, captureVars>>

\* POST /api/render/all without a file that has timing: 400
PostAllEmpty ==
    /\ ~renderAllRunning
    /\ Respond("render-all", 400)
    /\ UNCHANGED <<analyzeAllRunning, analyzeQueue, analyzeErrors>>
    /\ UNCHANGED <<textVars, simVars, timeVars, beatVars, segVars, renderVars, rematchVars,
                   captureVars>>

\* POST /api/render/all while a render-all is in progress: 409
PostAllRefused ==
    /\ renderAllRunning
    /\ Respond("render-all", 409)
    /\ UNCHANGED <<analyzeAllRunning, analyzeQueue, analyzeErrors>>
    /\ UNCHANGED <<textVars, simVars, timeVars, beatVars, segVars, renderVars, rematchVars,
                   captureVars>>

\* POST /api/render/:id/cancel on a running job: the job's signal is aborted
CancelJob ==
    /\ \E id \in Running :
          /\ ~jobs[id].aborted
          /\ jobs' = [jobs EXCEPT ![id].aborted = TRUE]
    /\ UNCHANGED <<renderAllRunning, allQueue, allJob>>
    /\ UNCHANGED <<textVars, simVars, timeVars, beatVars, segVars, rematchVars, captureVars, batchVars>>

\* The promise of a job settles: done, error, or cancelled when the capture
\* saw the aborted signal
JobSettles ==
    /\ \E id \in Running :
          \E outcome \in {"done", "error"} \cup
                         (IF jobs[id].aborted THEN {"cancelled"} ELSE {}) :
              jobs' = [jobs EXCEPT ![id].status = outcome]
    /\ UNCHANGED <<renderAllRunning, allQueue, allJob>>
    /\ UNCHANGED <<textVars, simVars, timeVars, beatVars, segVars, rematchVars, captureVars, batchVars>>

\* runRenderAll resumes after `await rawJob.promise` and starts the next item
RenderAllNext ==
    /\ renderAllRunning /\ allJob # 0 /\ allJob \notin Running
    /\ allQueue > 0
    /\ Len(jobs) + 1 <= MaxJobs
    /\ jobs' = StartedJobs(jobs, 1)
    /\ allJob' = Len(jobs) + 1
    /\ allQueue' = allQueue - 1
    /\ UNCHANGED renderAllRunning
    /\ UNCHANGED <<textVars, simVars, timeVars, beatVars, segVars, rematchVars, captureVars, batchVars>>

\* runRenderAll resumes after the last item; .finally clears the flag
RenderAllComplete ==
    /\ renderAllRunning /\ allJob # 0 /\ allJob \notin Running
    /\ allQueue = 0
    /\ renderAllRunning' = FALSE
    /\ allJob' = 0
    /\ UNCHANGED <<jobs, allQueue>>
    /\ UNCHANGED <<textVars, simVars, timeVars, beatVars, segVars, rematchVars, captureVars, batchVars>>

NextRender ==
    \/ PostRender \/ PostVariants \/ PostAll
    \/ CancelJob \/ JobSettles
    \/ RenderAllNext \/ RenderAllComplete

SpecRender == InitRender /\ [][NextRender]_vars

(***************************************************************************)
(* POST /api/import/analyze-all and runAnalyzeAll (routes/import.js), and  *)
(* the two batch routes together.  A segment of the project is "skipped"   *)
(* (no Option1 file), "cached" (already analyzed, not forced) or "analyze" *)
(* (analyzeHtml is awaited); a step runs from one await to the next.       *)
(***************************************************************************)
MaxAnalyzeSegs == 3

SegmentKinds == {"skipped", "cached", "analyze"}
AnalyzeProjects == UNION { [1..n -> SegmentKinds] : n \in 0..MaxAnalyzeSegs }

\* The segments for which analyzeHtml is awaited; the loop passes the others
\* without an await
Awaited(segs) == Cardinality({i \in 1..Len(segs) : segs[i] = "analyze"})

\* runAnalyzeAll with `awaits` analyses still to make, up to its next await;
\* when the loop ends the promise settles and .finally clears the flag
RunAnalyzeAll(awaits, errors) ==
    /\ analyzeQueue' = awaits
    /\ analyzeErrors' = errors
    /\ analyzeAllRunning' = (awaits > 0)

\* POST /api/import/analyze-all with a project: the flag is set and
\* runAnalyzeAll runs up to its first await
PostAnalyzeAll ==
    /\ ~analyzeAllRunning
    /\ \E segs \in AnalyzeProjects : RunAnalyzeAll(Awaited(segs), 0)
    /\ Respond("analyze-all", 200)
    /\ UNCHANGED <<textVars, simVars, timeVars, beatVars, segVars, renderVars, rematchVars,
                   captureVars>>

\* POST /api/import/analyze-all without project.json: 400
PostAnalyzeAllNoProject ==
    /\ ~analyzeAllRunning
    /\ Respond("analyze-all", 400)
    /\ UNCHANGED <<analyzeAllRunning, analyzeQueue, analyzeErrors>>
    /\ UNCHANGED <<textVars, simVars, timeVars, beatVars, segVars, renderVars, rematchVars,
                   captureVars>>

\* POST /api/import/analyze-all while an analysis is in progress: 409
PostAnalyzeAllRefused ==
    /\ analyzeAllRunning
    /\ Respond("analyze-all", 409)
    /\ UNCHANGED <<analyzeAllRunning, analyzeQueue, analyzeErrors>>
    /\ UNCHANGED <<textVars, simVars, timeVars, beatVars, segVars, renderVars, rematchVars,
                   captureVars>>

\* analyzeHtml resolves, or it rejects and the error is recorded; the loop
\* goes on to its next await
AnalyzeSettles ==
    /\ analyzeAllRunning
    /\ analyzeQueue > 0
    /\ \E failed \in BOOLEAN :
          RunAnalyzeAll(analyzeQueue - 1, analyzeErrors + (IF failed THEN 1 ELSE 0))
    /\ UNCHANGED <<response, reqParity>>
    /\ UNCHANGED <<textVars, simVars, timeVars, beatVars, segVars, renderVars, rematchVars,
                   captureVars>>

\* The two routes share no state: the requests of a behaviour go to one of
\* them, chosen by its first request
RenderAllOnly  == response.route # "analyze-all"
AnalyzeAllOnly == response.route # "render-all"

NextBatch ==
    \/ RenderAllOnly /\ PostAll
    \/ RenderAllOnly /\ PostAllEmpty
    \/ RenderAllOnly /\ PostAllRefused
    \/ RenderAllOnly /\ CancelJob
    \/ RenderAllOnly /\ JobSettles
    \/ RenderAllOnly /\ RenderAllNext
    \/ RenderAllOnly /\ RenderAllComplete
    \/ AnalyzeAllOnly /\ PostAnalyzeAll
    \/ AnalyzeAllOnly /\ PostAnalyzeAllNoProject
    \/ AnalyzeAllOnly /\ PostAnalyzeAllRefused
    \/ AnalyzeAllOnly /\ AnalyzeSettles

\* Every job's promise settles, every analysis settles, and the continuations
\* of the awaits run
BatchFairness ==
    /\ WF_vars(JobSettles)
    /\ WF_vars(RenderAllNext) /\ WF_vars(RenderAllComplete)
    /\ WF_vars(AnalyzeSettles)

SpecBatch == InitRender /\ [][NextBatch]_vars /\ BatchFairness

(***************************************************************************)
(* Claims about normalize() and similarity().                              *)
(***************************************************************************)
\* Only lowercase word characters separated by single spaces, no space at
\* either end.
IsNormalForm(s) ==
    /\ \A i \in 1..Len(s) : s[i] \in (WordChars \ UpperChars) \cup {" "}
    /\ s # <<>> => s[1] # " " /\ s[Len(s)] # " "
    /\ \A i \in 1..(Len(s) - 1) : ~(s[i] = " " /\ s[i + 1] = " ")

\* C8: normalize(normalize(s)) = normalize(s) for every string s (null and
\* undefined count as the empty string), and normalize(s) holds only lowercase
\* word characters separated by single spaces, with no space at either end.
C8_NormalizeIdempotent ==
    nPc = "done" => nOut[2] = nOut[1] /\ IsNormalForm(nOut[1])

\* C8 witness: an input with an upper-case letter, punctuation and a tab has
\* been normalized to "b a".
C8_Witness ==
    /\ nPc = "done"
    /\ nText = <<"B", "!", "\t", "a">>
    /\ nOut[1] = <<"b", " ", "a">>

HasWord(s) == \E i \in 1..Len(s) : s[i] # " "

InUnit(x) == RLe(RInt(0), x) /\ RLe(x, RInt(1))

\* C7 as amended: similarity(a, b) lies in [0, 1] for all strings, and
\* similarity(a, a) = 1 whenever a holds at least one character other than
\* the space character (which every non-empty normalized string does).
C7_SimilarityBounds ==
    simPc = "done" =>
        /\ InUnit(simOut[1])
        /\ InUnit(simOut[2])
        /\ HasWord(simA) => simOut[2] = RInt(1)

\* C7 witness: "a b" against "a" scores 0.8 (half the words shared, plus
\* the substring bonus) and "a b" against itself scores 1.
C7_Witness ==
    /\ simPc = "done"
    /\ simA = <<"a", " ", "b">>
    /\ simB = <<"a">>
    /\ simOut = <<Rat(4, 5), RInt(1)>>

\* C7 as stated: similarity(a, b) lies in [0, 1], and similarity(a, a) = 1
\* whenever a is non-empty.
C7_Original ==
    simPc = "done" =>
        /\ InUnit(simOut[1])
        /\ InUnit(simOut[2])
        /\ simA # <<>> => simOut[2] = RInt(1)

(***************************************************************************)
(* Claims about mapSrtToBeatsIntelligent() and interpolateMissing().       *)
(***************************************************************************)
Matched(m) == m.cueIdx # NullIdx

\* C1: among the mapping entries whose cueIdx is not null, cueIdx is strictly
\* increasing in beat order, whatever unmatched or skipped beats lie between.
C1_BeatMonotonic ==
    method # "fallback" =>
        \A i, j \in 1..Len(mapping) :
            i < j /\ Matched(mapping[i]) /\ Matched(mapping[j])
                => mapping[i].cueIdx < mapping[j].cueIdx

\* C1 witness: a finished run in which a skipped beat lies between two
\* matched beats.
C1_Witness ==
    /\ bPc = "done" /\ method = "text-match"
    /\ \E i, j, k \in 1..Len(mapping) :
          /\ i < j /\ j < k
          /\ Matched(mapping[i]) /\ Matched(mapping[k])
          /\ mapping[j].skipped = "silent"

\* C2: after interpolateMissing, beatTimes has one finite number per beat and
\* is non-decreasing, for any cues, beats and segStart/segEnd.
C2_BeatTimesMonotonic ==
    bPc = "done" /\ method = "text-match" =>
        /\ Len(beatTimes) = Len(beatTexts)
        /\ \A i \in 1..Len(beatTimes) : IsRat(beatTimes[i])
        /\ \A i \in 1..(Len(beatTimes) - 1) : RLe(beatTimes[i], beatTimes[i + 1])

\* C6 as amended: for a non-empty beat list the mapping has one entry per beat,
\* entry k has beatIdx = k, and beatTimes has one entry per beat; for an empty
\* beat list the result is the fallback: mapping is null and beatTimes holds
\* one entry per cue.
C6_OneEntryPerBeat ==
    bPc = "done" =>
        IF Len(beatTexts) > 0
        THEN /\ method = "text-match"
             /\ Len(mapping) = Len(beatTexts)
             /\ \A k \in 1..Len(mapping) : mapping[k].beatIdx = k - 1
             /\ Len(beatTimes) = Len(beatTexts)
        ELSE /\ method = "fallback"
             /\ Len(beatTimes) = Len(cues)

\* C6 witness: a finished run over three beats, matched and unmatched.
C6_Witness ==
    /\ bPc = "done" /\ Len(beatTexts) = 3 /\ Len(mapping) = 3
    /\ Matched(mapping[1]) /\ ~Matched(mapping[2])

\* C6 as stated: for any beat list the mapping has one entry per beat, in beat
\* order, and beatTimes has the length of the beat list.
C6_Original ==
    bPc = "done" =>
        /\ method = "text-match"
        /\ Len(mapping) = Len(beatTexts)
        /\ \A k \in 1..Len(mapping) : mapping[k].beatIdx = k - 1
        /\ Len(beatTimes) = Len(beatTexts)

(***************************************************************************)
(* Claims about timeToSeconds().                                           *)
(***************************************************************************)
AllDigits(s) == s # <<>> /\ \A i \in 1..Len(s) : s[i] \in DigitChars

CharsAt(ts, cs) == { x \in 1..Len(ts) : ts[x] \in cs }

\* ts reads H:M:S<sep>F with digit fields, the colons at i and j and the
\* millisecond separator at k
IsHmsAt(ts, i, j, k) ==
    /\ i < j /\ j < k /\ k < Len(ts)
    /\ ts[i] = ":" /\ ts[j] = ":" /\ ts[k] \in {",", "."}
    /\ AllDigits(SubSeq(ts, 1, i - 1))
    /\ AllDigits(SubSeq(ts, i + 1, j - 1))
    /\ AllDigits(SubSeq(ts, j + 1, k - 1))
    /\ AllDigits(SubSeq(ts, k + 1, Len(ts)))

\* hours*3600 + minutes*60 + seconds.milliseconds, read off the fields
HmsValueAt(ts, i, j, k) ==
    RAdd(RInt(DigitsValue(SubSeq(ts, 1, i - 1)) * 3600
              + DigitsValue(SubSeq(ts, i + 1, j - 1)) * 60
              + DigitsValue(SubSeq(ts, j + 1, k - 1))),
         Rat(DigitsValue(SubSeq(ts, k + 1, Len(ts))), Pow10(Len(ts) - k)))

Stamp_Comma  == <<"0", "0", ":", "0", "1", ":", "0", "2", ",", "5", "0", "0">>
Stamp_Period == <<"0", "0", ":", "0", "1", ":", "0", "2", ".", "5", "0", "0">>

\* C10: for a timestamp H:M:S,F or H:M:S.F the result is
\* hours*3600 + minutes*60 + seconds.milliseconds whichever separator is
\* used; "00:01:02,500" and "00:01:02.500" both give 62.5.
C10_CommaOrPeriod ==
    tsPc = "done" /\ tsInput # NULL =>
        /\ \A i, j \in CharsAt(tsInput, {":"}) : \A k \in CharsAt(tsInput, {",", "."}) :
               IsHmsAt(tsInput, i, j, k) => tsOut = HmsValueAt(tsInput, i, j, k)
        /\ tsInput \in {Stamp_Comma, Stamp_Period} => tsOut = Rat(125, 2)

\* C10 witness: "00:01:02,500" has been converted to 62.5.
C10_Witness ==
    tsPc = "done" /\ tsInput = Stamp_Comma /\ tsOut = Rat(125, 2)

\* The timestamps the claim calls parsable: three ':'-separated fields, hours
\* and minutes made of digits, seconds made of digits with an optional
\* fraction.
IsParsableTimestamp(ts) ==
    /\ ts # NULL
    /\ \E i, j \in CharsAt(ts, {":"}) :
          /\ i < j
          /\ AllDigits(SubSeq(ts, 1, i - 1))
          /\ AllDigits(SubSeq(ts, i + 1, j - 1))
          /\ \/ AllDigits(SubSeq(ts, j + 1, Len(ts)))
             \/ \E k \in CharsAt(ts, {",", "."}) : IsHmsAt(ts, i, j, k)

\* C9: timeToSeconds returns 0 for every unparsable timestamp (missing value,
\* wrong number of ':'-separated parts, non-numeric fields) and never NaN.
C9_MalformedGivesZero ==
    tsPc = "done" =>
        /\ tsOut # NaN
        /\ ~IsParsableTimestamp(tsInput) => tsOut = RInt(0)

(***************************************************************************)
(* Claims about mapSrtToSegments().                                        *)
(***************************************************************************)
Pass2Over == (sPc = "pass2" /\ candPos = Len(matchedIdxs)) \/ sPc = "done"

StillMatched == { i \in 1..Len(rawMatches) : rawMatches[i].matched }

\* The segments that pass 1 matched and pass 2 turned down
TurnedDown ==
    { i \in 1..Len(rawMatches) :
        /\ \E k \in 1..Len(matchedIdxs) : matchedIdxs[k].idx = i - 1
        /\ ~rawMatches[i].matched }

\* C3: after pass 2, of any two segments that are still matched the earlier
\* one's cue range ends strictly before the later one's cue range starts.
C3_SegmentNonOverlap ==
    Pass2Over =>
        \A i, j \in StillMatched :
            i < j => rawMatches[i].endCueIdx < rawMatches[j].startCueIdx

\* Pass 2 is over, it turned a segment down, and two segments stay matched
C3_Witness ==
    /\ Pass2Over
    /\ TurnedDown # {}
    /\ Cardinality(StillMatched) >= 2

\* C4: every segment match of the final output has numeric startTime and
\* endTime with startTime <= endTime.
C4_TimesPopulatedOrdered ==
    sPc = "done" =>
        \A i \in 1..Len(segmentMatches) :
            /\ IsRat(segmentMatches[i].startTime)
            /\ IsRat(segmentMatches[i].endTime)
            /\ RLe(segmentMatches[i].startTime, segmentMatches[i].endTime)

\* C5: in the final output the time ranges follow the segment order without
\* overlap: endTime[i] <= startTime[j] for positions i < j.
C5_TimeRangesOrdered ==
    sPc = "done" =>
        \A i, j \in 1..Len(segmentMatches) :
            i < j => RLe(segmentMatches[i].endTime, segmentMatches[j].startTime)

(***************************************************************************)
(* Claims about interpolation without anchors.                             *)
(***************************************************************************)
NoAnchors == method = "text-match" /\ \A i \in 1..Len(mapping) : ~Matched(mapping[i])

\* The floor and the ceiling of a finished run
RunFloor ==
    IF segStart # NULL THEN segStart
    ELSE IF Len(cues) > 0 THEN cues[1].startTime ELSE RInt(0)

RunCeil ==
    IF segEnd # NULL THEN segEnd
    ELSE IF Len(cues) > 0 THEN cues[Len(cues)].endTime ELSE RInt(2 * Len(mapping))

\* C11: with no matched anchor, N >= 2 beats lie at
\* floor + i/(N-1) * (ceil - floor) rounded to milliseconds (i from 0), a single
\* beat lies at the midpoint, and 4 beats over [10, 18] give
\* [10, 12.667, 15.333, 18].
C11_EvenSpread ==
    bPc = "done" /\ NoAnchors =>
        LET N == Len(mapping)
        IN  /\ Len(beatTimes) = N
            /\ N = 1 => beatTimes[1] = RoundMs(RDiv(RAdd(RunFloor, RunCeil), RInt(2)))
            /\ N >= 2 =>
                 \A i \in 0..(N - 1) :
                    beatTimes[i + 1] =
                        RoundMs(RAdd(RunFloor,
                                     RMul(Rat(i, N - 1), RSub(RunCeil, RunFloor))))
            /\ N = 4 /\ segStart = RInt(10) /\ segEnd = RInt(18) =>
                 beatTimes = <<RInt(10), Rat(12667, 1000), Rat(15333, 1000), RInt(18)>>

\* C11 witness: four beats without anchors spread over [10, 18]
C11_Witness ==
    /\ bPc = "done" /\ NoAnchors /\ Len(mapping) = 4
    /\ segStart = RInt(10) /\ segEnd = RInt(18)
    /\ beatTimes[2] = Rat(12667, 1000)

(***************************************************************************)
(* Claims about pass 2 of mapSrtToSegments().                              *)
(***************************************************************************)
\* Two candidates of pass 2 (entries of matchedIdxs) conflict: the window of
\* the one later in script order does not lie strictly after the other's
Conflict(a, b) ==
    IF a.idx < b.idx THEN ~(a.endCueIdx < b.startCueIdx)
    ELSE ~(b.endCueIdx < a.startCueIdx)

CandidatePairs ==
    { <<a, b>> \in (1..Len(matchedIdxs)) \X (1..Len(matchedIdxs)) :
        /\ a # b
        /\ Conflict(matchedIdxs[a], matchedIdxs[b])
        /\ matchedIdxs[a].confidence > matchedIdxs[b].confidence }

\* The candidate keeps the window pass 1 gave it
KeepsRange(c) ==
    /\ rawMatches[c.idx + 1].matched
    /\ rawMatches[c.idx + 1].startCueIdx = c.startCueIdx
    /\ rawMatches[c.idx + 1].endCueIdx = c.endCueIdx

\* The candidate is unmatched and, in the final output, has interpolated times
LosesRange(c) ==
    /\ ~rawMatches[c.idx + 1].matched
    /\ rawMatches[c.idx + 1].startCueIdx = NullIdx
    /\ rawMatches[c.idx + 1].endCueIdx = NullIdx
    /\ sPc = "done" =>
          /\ ~segmentMatches[c.idx + 1].matched
          /\ IsRat(segmentMatches[c.idx + 1].startTime)
          /\ IsRat(segmentMatches[c.idx + 1].endTime)

\* No candidate of equal or higher confidence conflicts with this one
Undisputed(a) ==
    \A k \in 1..Len(matchedIdxs) :
        k # a /\ Conflict(matchedIdxs[a], matchedIdxs[k])
            => matchedIdxs[k].confidence < matchedIdxs[a].confidence

\* C12 as amended: of two conflicting candidates, the one of higher confidence
\* keeps its cue range and the other becomes unmatched with interpolated times,
\* provided no candidate of equal or higher confidence conflicts with the
\* higher one.
C12_HigherConfidenceWins ==
    Pass2Over =>
        \A p \in CandidatePairs :
            Undisputed(p[1]) =>
                KeepsRange(matchedIdxs[p[1]]) /\ LosesRange(matchedIdxs[p[2]])

\* C12 witness: the finished run of a conflict won by the segment later in
\* script order
C12_Witness ==
    /\ sPc = "done"
    /\ \E p \in CandidatePairs :
          /\ Undisputed(p[1])
          /\ matchedIdxs[p[1]].idx > matchedIdxs[p[2]].idx

\* C12 as stated: of any two conflicting candidates the one of higher
\* confidence keeps its cue range and the other becomes unmatched.
C12_Original ==
    Pass2Over =>
        \A p \in CandidatePairs :
            KeepsRange(matchedIdxs[p[1]]) /\ LosesRange(matchedIdxs[p[2]])

\* The positions (0-based) that hold an accepted range
Accepted == { i \in 0..(Len(assigned) - 1) : assigned[i + 1] # NULL }

\* The candidate c fits the accepted ranges: those of earlier positions end
\* strictly before its start, those of later positions start strictly after
\* its end
Fits(c) ==
    \A i \in Accepted :
        /\ i < c.idx => assigned[i + 1][2] < c.startCueIdx
        /\ i > c.idx => assigned[i + 1][1] > c.endCueIdx

\* One step of pass 2 on the candidate c
GreedyStep(c) ==
    /\ Fits(c) =>
          /\ assigned' = [assigned EXCEPT ![c.idx + 1] = <<c.startCueIdx, c.endCueIdx>>]
          /\ rawMatches' = rawMatches
    /\ ~Fits(c) =>
          /\ assigned' = assigned
          /\ ~rawMatches'[c.idx + 1].matched
          /\ rawMatches'[c.idx + 1].startCueIdx = NullIdx
          /\ rawMatches'[c.idx + 1].endCueIdx = NullIdx
          /\ \A i \in 1..Len(rawMatches) : i # c.idx + 1 => rawMatches'[i] = rawMatches[i]

\* C17: pass 2 takes the candidates in descending confidence, each once; a
\* candidate is accepted if and only if it fits the ranges accepted so far; a
\* rejected candidate gets matched = false and null cue indices and stays so.
C17_GreedyRule ==
    /\ [](sPc \in {"pass2", "done"} =>
            /\ \A k \in 1..(Len(matchedIdxs) - 1) :
                  matchedIdxs[k].confidence >= matchedIdxs[k + 1].confidence
            /\ \A k, l \in 1..Len(matchedIdxs) :
                  k # l => matchedIdxs[k].idx # matchedIdxs[l].idx)
    /\ [][sPc = "pass2" =>
            /\ candPos < Len(matchedIdxs) =>
                  candPos' = candPos + 1 /\ GreedyStep(matchedIdxs[candPos + 1])
            /\ matchedIdxs' = matchedIdxs
            /\ \A i \in 1..Len(rawMatches) :
                  ~rawMatches[i].matched => rawMatches'[i] = rawMatches[i]]_vars

\* C17 witness: pass 2 has accepted one candidate and rejected another
C17_Witness ==
    /\ sPc = "pass2" /\ candPos = Len(matchedIdxs)
    /\ Accepted # {}
    /\ \E k \in 1..Len(matchedIdxs) : matchedIdxs[k].idx \notin Accepted

(***************************************************************************)
(* Claims about the window search of pass 1.                               *)
(***************************************************************************)
\* The loop over end for one start, for the segment pass 1 is about to
\* process; its noImprovementCount is the count when the loop is left
WindowRun(start) ==
    LET scriptWordsFull == WordSet(normalize(segments[segIdx + 1].script))
    IN  ExpandWindow(start, start,
            [windowWords |-> {}, peakScore |-> RInt(0), noImprovementCount |-> 0,
             bestScore |-> RInt(0), bestStart |-> -1, bestEnd |-> -1],
            cueWordSets, scriptWordsFull, contentWords(scriptWordsFull))

\* C18: for a fixed start the expansion stops once 10 consecutive cues have
\* failed to raise the peak score: an 11th consecutive non-improving cue is
\* never evaluated, so the count of consecutive failures never passes 10.
C18_StopsAfterTen ==
    sPc = "pass1" /\ segIdx < Len(segments)
    /\ ~IsShortScript(normalize(segments[segIdx + 1].script)) =>
        \A start \in 0..(Len(cues) - 1) : WindowRun(start).noImprovementCount <= 10

(***************************************************************************)
(* Claims about beats given in the order of the cues.                      *)
(***************************************************************************)
\* Beat k (1-based) occurs literally in cue k and scores strictly lower at
\* every later cue, alone or joined with its neighbours
OccursInOwnCue(k) ==
    LET text == normalize(beatTexts[k])
    IN  /\ text # <<>>
        /\ Includes(cueTexts[k], text)
        /\ \A j \in (k + 1)..Len(cueTexts) :
              RLt(CueScore(text, cueTexts, j - 1), CueScore(text, cueTexts, k - 1))

InOrderInput ==
    /\ Len(beatTexts) = Len(cues) /\ Len(beatTexts) >= 1
    /\ \A k \in 1..Len(beatTexts) : OccursInOwnCue(k)

Spoken(k) == beatTypes[k] \notin {"silent", "data"}

EachBeatOnOwnCue ==
    /\ \A k \in 1..Len(mapping) : mapping[k].cueIdx = k - 1
    /\ beatTimes = [k \in 1..Len(cues) |-> cues[k].startTime]

\* C13 as amended: n beats, none of type silent or data, against n cues where
\* beat k occurs literally in cue k and scores strictly lower at every later
\* cue and cue window: beat k is matched to cue k and beatTimes are the cue
\* start times; Apples, Bananas, Cherries give [0, 3, 6].
C13_InOrder ==
    bPc = "done" /\ method = "text-match" =>
        /\ InOrderInput /\ (\A k \in 1..Len(beatTexts) : Spoken(k)) => EachBeatOnOwnCue
        /\ cues = FruitCues /\ beatTexts = <<Beat_Apples, Beat_Bananas, Beat_Cherries>>
              => beatTimes = <<RInt(0), RInt(3), RInt(6)>>

\* C13 witness: the finished run of Apples, Bananas, Cherries
C13_Witness ==
    /\ bPc = "done" /\ InOrderInput
    /\ cues = FruitCues /\ beatTexts = <<Beat_Apples, Beat_Bananas, Beat_Cherries>>
    /\ \A k \in 1..3 : mapping[k].cueIdx = k - 1

\* C13 as stated: whatever the beat types.
C13_Original ==
    bPc = "done" /\ method = "text-match" /\ InOrderInput => EachBeatOnOwnCue

(***************************************************************************)
(* Claims about beats without a counterpart in the transcript.             *)
(***************************************************************************)
\* The cues and the windows of two and three consecutive cues
CueWindows ==
    { cueTexts[j] : j \in 1..Len(cueTexts) }
    \cup { JoinSp(cueTexts[j], cueTexts[j + 1]) : j \in 1..(Len(cueTexts) - 1) }
    \cup { JoinSp(JoinSp(cueTexts[j], cueTexts[j + 1]), cueTexts[j + 2]) :
           j \in 1..(Len(cueTexts) - 2) }

\* text shares no word and no bigram with the window and is no substring of it
NothingShared(text, window) ==
    /\ WordSet(text) \cap WordSet(window) = {}
    /\ toBigrams(text) \cap toBigrams(window) = {}
    /\ ~Includes(window, text)

Foreign(text) == \A w \in CueWindows : NothingShared(text, w)

\* Neither is text a substring of a window nor a window a substring of text
ForeignBothWays(text) ==
    \A w \in CueWindows : NothingShared(text, w) /\ (w # <<>> => ~Includes(text, w))

\* With no anchor the times run from the floor to the ceiling; two beats lie
\* at the floor and the ceiling, one beat at the midpoint
SpreadOverBounds ==
    LET N == Len(beatTimes)
    IN  /\ N >= 2 => beatTimes[1] = RoundMs(RunFloor) /\ beatTimes[N] = RoundMs(RunCeil)
        /\ N = 2 /\ segStart # NULL /\ segEnd # NULL => beatTimes = <<segStart, segEnd>>
        /\ N = 1 => beatTimes[1] = RoundMs(RDiv(RAdd(RunFloor, RunCeil), RInt(2)))
        /\ \A i \in 1..(N - 2) :
              LET d1 == RSub(beatTimes[i + 1], beatTimes[i])
                  d2 == RSub(beatTimes[i + 2], beatTimes[i + 1])
              IN  RLe(RSub(d1, d2), Rat(1, 500)) /\ RLe(RSub(d2, d1), Rat(1, 500))

\* C14 as amended: a beat whose normalized text is empty, or that shares no
\* word and no bigram with any cue or cue window, is no substring of one and
\* contains none as a substring, is recorded unmatched; when every beat is
\* unmatched the times are spread uniformly over the floor and ceiling.
C14_ForeignBeatUnmatched ==
    bPc = "done" /\ method = "text-match" =>
        /\ \A k \in 1..Len(beatTexts) :
              LET text == normalize(beatTexts[k])
              IN  text = <<>> \/ ForeignBothWays(text) => ~Matched(mapping[k])
        /\ NoAnchors => SpreadOverBounds

\* C14 witness: an empty beat and a foreign beat against a cue, spread over
\* the given bounds
C14_Witness ==
    /\ bPc = "done" /\ method = "text-match" /\ Len(cues) > 0
    /\ Len(beatTexts) = 2 /\ Spoken(1) /\ Spoken(2)
    /\ normalize(beatTexts[1]) = <<>>
    /\ normalize(beatTexts[2]) # <<>> /\ ForeignBothWays(normalize(beatTexts[2]))
    /\ segStart = RInt(10) /\ beatTimes = <<RInt(10), RInt(18)>>

\* C14 as stated: the beat need only be no substring of a cue or cue window.
C14_Original ==
    bPc = "done" /\ method = "text-match" =>
        /\ \A k \in 1..Len(beatTexts) :
              LET text == normalize(beatTexts[k])
              IN  text = <<>> \/ Foreign(text) => ~Matched(mapping[k])
        /\ NoAnchors => SpreadOverBounds

(***************************************************************************)
(* Claims about the empty transcript.                                      *)
(***************************************************************************)
\* The beats spread evenly from lo to hi, rounded to milliseconds
EvenlyOver(times, lo, hi) ==
    LET N == Len(times)
    IN  /\ N = 1 => times[1] = RoundMs(RDiv(RAdd(lo, hi), RInt(2)))
        /\ N >= 2 =>
              \A i \in 1..N :
                 times[i] = RoundMs(RAdd(lo, RMul(Rat(i - 1, N - 1), RSub(hi, lo))))

\* C15: with an empty cue list every beat is unmatched and beatTimes are
\* spread evenly over the given bounds or, without bounds, over [0, 2N]; every
\* segment is unmatched and has a numeric time range.
C15_EmptyTranscript ==
    Len(cues) = 0 =>
        /\ bPc = "done" /\ method = "fallback" => beatTimes = <<>>
        /\ bPc = "done" /\ method = "text-match" =>
              /\ Len(mapping) = Len(beatTexts)
              /\ \A k \in 1..Len(mapping) : ~Matched(mapping[k])
              /\ Len(beatTimes) = Len(beatTexts)
              /\ EvenlyOver(beatTimes,
                            IF segStart # NULL THEN segStart ELSE RInt(0),
                            IF segEnd # NULL THEN segEnd ELSE RInt(2 * Len(beatTexts)))
        /\ sPc = "done" =>
              /\ Len(segmentMatches) = Len(segments)
              /\ \A i \in 1..Len(segmentMatches) :
                    /\ ~segmentMatches[i].matched
                    /\ segmentMatches[i].startCueIdx = NullIdx
                    /\ IsRat(segmentMatches[i].startTime)
                    /\ IsRat(segmentMatches[i].endTime)
                    /\ RLe(segmentMatches[i].startTime, segmentMatches[i].endTime)

\* C15 witness: three beats against the empty transcript, without bounds
C15_Witness ==
    /\ Len(cues) = 0 /\ bPc = "done" /\ method = "text-match"
    /\ Len(beatTexts) = 3 /\ segStart = NULL /\ segEnd = NULL
    /\ beatTimes = <<RInt(0), RInt(3), RInt(6)>>

(***************************************************************************)
(* Claims about the timing of unmatched segments.                          *)
(***************************************************************************)
\* The matched segments of the final output before and after position i
MatchedBefore(i) == { p \in 1..(i - 1) : segmentMatches[p].matched }
MatchedAfter(i)  == { n \in (i + 1)..Len(segmentMatches) : segmentMatches[n].matched }

Latest(S)   == CHOOSE x \in S : \A y \in S : y <= x
Earliest(S) == CHOOSE x \in S : \A y \in S : x <= y

\* C19: an unmatched segment i between its nearest matched segments p < i < n
\* has startTime = endTime[p] + (i-p)/(n-p) * (startTime[n] - endTime[p]) and
\* endTime = endTime[p] + (i-p+1)/(n-p) * (startTime[n] - endTime[p]),
\* however many unmatched segments lie between p and n.
C19_GapSubdivided ==
    sPc = "done" =>
        \A i \in 1..Len(segmentMatches) :
            (/\ ~segmentMatches[i].matched
             /\ MatchedBefore(i) # {}
             /\ MatchedAfter(i) # {}) =>
                LET p == Latest(MatchedBefore(i))
                    n == Earliest(MatchedAfter(i))
                    prevEnd == segmentMatches[p].endTime
                    width == RSub(segmentMatches[n].startTime, prevEnd)
                IN  /\ segmentMatches[i].startTime =
                            RAdd(prevEnd, RMul(Rat(i - p, n - p), width))
                    /\ segmentMatches[i].endTime =
                            RAdd(prevEnd, RMul(Rat(i - p + 1, n - p), width))

\* C20: the k-th unmatched segment after the last matched segment p starts at
\* endTime[p] + 3k and lasts 3 seconds; the k-th unmatched segment before the
\* first matched segment n starts at max(0, startTime[n] - 3k) and lasts 3
\* seconds.
C20_FixedSpacing ==
    sPc = "done" =>
        \A i \in 1..Len(segmentMatches) :
            ~segmentMatches[i].matched =>
                /\ (MatchedBefore(i) # {} /\ MatchedAfter(i) = {}) =>
                      LET p == Latest(MatchedBefore(i))
                          st == RAdd(segmentMatches[p].endTime,
                                     RInt(SegmentGap * (i - p)))
                      IN  /\ segmentMatches[i].startTime = st
                          /\ segmentMatches[i].endTime = RAdd(st, RInt(SegmentGap))
                /\ (MatchedBefore(i) = {} /\ MatchedAfter(i) # {}) =>
                      LET n == Earliest(MatchedAfter(i))
                          st == RMax(RInt(0),
                                     RSub(segmentMatches[n].startTime,
                                          RInt(SegmentGap * (n - i))))
                      IN  /\ segmentMatches[i].startTime = st
                          /\ segmentMatches[i].endTime = RAdd(st, RInt(SegmentGap))

(***************************************************************************)
(* Claims about the timing of unmatched beats.                             *)
(***************************************************************************)
\* The matched beats of a finished run before and after position i
AnchorsBefore(i) == { p \in 1..(i - 1) : Matched(mapping[p]) }
AnchorsAfter(i)  == { n \in (i + 1)..Len(mapping) : Matched(mapping[n]) }

\* Position i is an unmatched beat between two matched beats
InGap(i) == ~Matched(mapping[i]) /\ AnchorsBefore(i) # {} /\ AnchorsAfter(i) # {}

\* C21: an unmatched beat i between its nearest matched beats prev < i < next
\* gets time = times[prev] + (i-prev)/(next-prev) * (times[next]-times[prev]),
\* rounded to milliseconds as the whole result is, for any number of
\* unmatched beats in the gap.
C21_GapInterpolated ==
    bPc = "done" /\ method = "text-match" =>
        \A i \in 1..Len(mapping) :
            InGap(i) =>
                LET prev == Latest(AnchorsBefore(i))
                    next == Earliest(AnchorsAfter(i))
                    tPrev == mapping[prev].time
                    tNext == mapping[next].time
                IN  beatTimes[i] =
                        RoundMs(RAdd(tPrev, RMul(Rat(i - prev, next - prev),
                                                 RSub(tNext, tPrev))))

\* C21 witness: two unmatched beats in a row lie between two matched beats
\* that are matched to cues with different start times
C21_Witness ==
    /\ bPc = "done" /\ method = "text-match"
    /\ \E i \in 1..(Len(mapping) - 1) :
          /\ InGap(i) /\ InGap(i + 1)
          /\ mapping[Latest(AnchorsBefore(i))].time
                # mapping[Earliest(AnchorsAfter(i))].time

(***************************************************************************)
(* Claims about the search cursor of the beat aligner.                     *)
(***************************************************************************)
\* The step pushes a matched entry onto the mapping
AcceptStep ==
    /\ method' # "fallback"
    /\ Len(mapping') = Len(mapping) + 1
    /\ Matched(mapping'[Len(mapping')])

\* C22: searchStart changes only when a beat is accepted; on acceptance of cue
\* c it becomes c + 1 and the match records the start time of cue c; for a
\* rejected, empty or skipped beat it stays unchanged, so it never decreases.
C22_CursorMovesOnAccept ==
    [][ /\ AcceptStep =>
              LET m == mapping'[Len(mapping')]
              IN  /\ searchStart' = m.cueIdx + 1
                  /\ m.time = cues[m.cueIdx + 1].startTime
        /\ ~AcceptStep => searchStart' = searchStart
        /\ searchStart' >= searchStart ]_vars

\* C22 witness: the beat just accepted scored higher on a window of cues than
\* on its first cue alone, and the cursor is one past that first cue
C22_Witness ==
    /\ bPc \in {"loop", "interpolate"} /\ Len(mapping) > 0
    /\ LET m == mapping[Len(mapping)]
           text == normalize(beatTexts[Len(mapping)])
       IN  /\ Matched(m)
           /\ searchStart = m.cueIdx + 1
           /\ m.time = cues[m.cueIdx + 1].startTime
           /\ RLt(ContainScore(text, cueTexts[m.cueIdx + 1]),
                  CueScore(text, cueTexts, m.cueIdx))

\* Beat k (1-based) is of type silent or data
SkippedType(k) == beatTypes[k] \in {"silent", "data"}

\* C23: a beat of type silent or data is always recorded unmatched (cueIdx
\* null, score 0, no time), even when its text is identical to a cue; it does
\* not advance searchStart, so the cues stay available to later beats.
C23_SkippedStaysUnmatched ==
    /\ [](method # "fallback" =>
            \A k \in 1..Len(mapping) :
                SkippedType(k) => mapping[k] = Unmatched(k - 1, beatTypes[k]))
    /\ [][(InLoop /\ SkippedType(beatIdx + 1)) =>
            /\ searchStart' = searchStart
            /\ Len(mapping') = Len(mapping) + 1
            /\ beatIdx' = beatIdx + 1]_vars

\* C23 witness: a skipped beat has the text of a cue, and a later beat is
\* matched to that very cue
C23_Witness ==
    /\ bPc = "done" /\ method = "text-match"
    /\ \E k, l \in 1..Len(mapping) :
          /\ k < l /\ SkippedType(k) /\ ~Matched(mapping[k])
          /\ Matched(mapping[l])
          /\ normalize(beatTexts[k]) = cueTexts[mapping[l].cueIdx + 1]

(***************************************************************************)
(* Claims about the acceptance of a beat.                                  *)
(***************************************************************************)
\* The texts a cue is scored on: the cue alone and joined with its next one
\* and next two neighbours
WindowTexts(c) ==
    { cueTexts[c + 1] }
    \cup (IF c + 1 < Len(cueTexts)
          THEN { JoinSp(cueTexts[c + 1], cueTexts[c + 2]) } ELSE {})
    \cup (IF c + 2 < Len(cueTexts)
          THEN { JoinSp(JoinSp(cueTexts[c + 1], cueTexts[c + 2]), cueTexts[c + 3]) }
          ELSE {})

Highest(S) == CHOOSE x \in S : \A y \in S : RLe(y, x)

\* The best score of cue c for the beat being decided, and over all cues at
\* or after searchStart (0 when there is none)
ScoreAt(c) == Highest({ ContainScore(BeatText, w) : w \in WindowTexts(c) })

Candidates == searchStart..(Len(cueTexts) - 1)

BestOverall ==
    IF Candidates = {} THEN RInt(0) ELSE Highest({ ScoreAt(c) : c \in Candidates })

\* C24: a non-skipped, non-empty beat is matched if and only if the best score
\* over the cues at or after searchStart, windows of 2 and 3 cues included, is
\* >= 0.08 for a label and >= 0.15 otherwise; the recorded score is the best
\* score scaled to 0..100 and the cue is the lowest-index cue attaining it.
C24_AdaptiveThreshold ==
    [][bPc = "decide" =>
          /\ Len(mapping') = Len(mapping) + 1
          /\ LET m == mapping'[Len(mapping')]
                 limit == IF BeatType = "label" THEN LabelThreshold ELSE SpeechThreshold
             IN  /\ Matched(m) <=> RLe(limit, BestOverall)
                 /\ Matched(m) =>
                       /\ m.score = RoundInt(RMul(BestOverall, RInt(100)))
                       /\ ScoreAt(m.cueIdx) = BestOverall
                       /\ \A c \in Candidates :
                             c < m.cueIdx => RLt(ScoreAt(c), BestOverall)]_vars

\* C24 witness: the same text scoring between 0.08 and 0.15 was rejected as a
\* beat without a type and accepted as a label, on the first of two cues
\* with the best score
C24_Witness ==
    /\ bPc = "interpolate" /\ Len(mapping) >= 2
    /\ \E k \in 1..(Len(mapping) - 1) :
          /\ beatTexts[k] = beatTexts[k + 1]
          /\ beatTypes[k] = "none" /\ ~Matched(mapping[k])
          /\ beatTypes[k + 1] = "label" /\ Matched(mapping[k + 1])
          /\ mapping[k + 1].score >= 8 /\ mapping[k + 1].score < 15
          /\ \E c \in (mapping[k + 1].cueIdx + 1)..(Len(cueTexts) - 1) :
                CueScore(normalize(beatTexts[k + 1]), cueTexts, c)
                    = CueScore(normalize(beatTexts[k + 1]), cueTexts, mapping[k + 1].cueIdx)

(***************************************************************************)
(* Claims about the acceptance of a segment in pass 1.                     *)
(***************************************************************************)
\* The words of the cues start..end (0-based, inclusive)
WindowUnion(start, end) == UNION { cueWordSets[k + 1] : k \in start..end }

\* 0.6 * srtCoverage + 0.4 * scriptCoverage of a window that has content words
CoverageScore(windowWords, scriptWords) ==
    LET windowContent == contentWords(windowWords)
        scriptContent == contentWords(scriptWords)
    IN  RAdd(RMul(Rat(3, 5), Rat(Cardinality(windowContent \cap scriptWords),
                                 Cardinality(windowContent))),
             RMul(Rat(2, 5), IF scriptContent = {} THEN RInt(0)
                             ELSE Rat(Cardinality(scriptContent \cap windowWords),
                                      Cardinality(scriptContent))))

Scored(start, end) == contentWords(WindowUnion(start, end)) # {}

\* Every window of at most 40 cues that has content words
AllWindows ==
    { w \in (0..(Len(cues) - 1)) \X (0..(Len(cues) - 1)) :
        w[1] <= w[2] /\ w[2] < w[1] + 40 /\ Scored(w[1], w[2]) }

BestOf(windows, scriptWords) ==
    IF windows = {} THEN RInt(0)
    ELSE Highest({ CoverageScore(WindowUnion(w[1], w[2]), scriptWords) : w \in windows })

\* Segment i (1-based) has a normalized script of at least 10 characters
LongScript(i) == Len(normalize(segments[i].script)) >= 10

ScriptWords(i) == WordSet(normalize(segments[i].script))

\* Pass 1 has handled every segment and pass 2 has not begun
Pass1Over == sPc = "pass1" /\ segIdx = Len(segments)

\* C25 as stated: a segment is matched after pass 1 if and only if its
\* normalized script has at least 10 characters and the best score over all
\* windows of at most 40 cues is >= 0.25; a shorter script is unmatched with
\* confidence 0.
C25_Original ==
    Pass1Over =>
        \A i \in 1..Len(rawMatches) :
            /\ rawMatches[i].matched <=>
                  (LongScript(i) /\ RLe(Rat(1, 4), BestOf(AllWindows, ScriptWords(i))))
            /\ ~LongScript(i) =>
                  ~rawMatches[i].matched /\ rawMatches[i].confidence = 0

\* The scores of the windows of one start, shortest first; NULL for a window
\* without content words
StartScores(start, scriptWords) ==
    [k \in 1..(Len(cues) - start) |->
        IF Scored(start, start + k - 1)
        THEN CoverageScore(WindowUnion(start, start + k - 1), scriptWords)
        ELSE NULL] \o <<>>

\* The k-th window scores above every shorter window of the start, and above 0
Raises(sc, k) ==
    /\ sc[k] # NULL
    /\ RLt(RInt(0), sc[k])
    /\ \A j \in 1..(k - 1) : sc[j] # NULL => RLt(sc[j], sc[k])

\* The scored windows up to the k-th since the last one that raised the peak
Failures(sc, k) ==
    { j \in 1..k : sc[j] # NULL /\ \A l \in j..k : ~Raises(sc, l) }

\* The search of the start goes no further than the k-th window
Leaves(sc, k) == sc[k] # NULL /\ Cardinality(Failures(sc, k)) > 10

\* The scores of the windows of one start that the search evaluates
EvaluatedScores(sc) ==
    { sc[k] : k \in { k \in 1..Len(sc) :
                        /\ k <= 40 /\ sc[k] # NULL
                        /\ \A j \in 1..(k - 1) : ~Leaves(sc, j) } }

\* The best score over the windows the search evaluates
BestEvaluated(scriptWords) ==
    Highest({RInt(0)} \cup
            UNION { EvaluatedScores(StartScores(start, scriptWords)) :
                      start \in 0..(Len(cues) - 1) })

\* C25, amended: a segment is matched after pass 1 if and only if its
\* normalized script has at least 10 characters and the best score over the
\* windows the search evaluates is >= 0.25, the search of a start ending with
\* the 11th window in a row that did not raise that start's peak; a shorter
\* script is unmatched with confidence 0.
C25_Pass1Acceptance ==
    Pass1Over =>
        \A i \in 1..Len(rawMatches) :
            /\ rawMatches[i].matched <=>
                  (/\ LongScript(i)
                   /\ RLe(Rat(1, 4), BestEvaluated(ScriptWords(i))))
            /\ LongScript(i) =>
                  rawMatches[i].confidence =
                      RoundInt(RMul(BestEvaluated(ScriptWords(i)),
                                    RInt(100)))
            /\ ~LongScript(i) =>
                  ~rawMatches[i].matched /\ rawMatches[i].confidence = 0

\* C25 witness: pass 1 is over with a short script unmatched, a script
\* matched, and a script unmatched at 0.22 while a window the search did not
\* reach scores 0.4
C25_Witness ==
    /\ sPc = "pass1" /\ segIdx = Len(segments) /\ Len(rawMatches) = 3
    /\ ~LongScript(1) /\ ~rawMatches[1].matched
    /\ rawMatches[2].matched
    /\ LongScript(3) /\ ~rawMatches[3].matched /\ rawMatches[3].confidence = 22
    /\ BestOf(AllWindows, ScriptWords(3)) = Rat(2, 5)

(***************************************************************************)
(* Claims about the render jobs.                                           *)
(***************************************************************************)
\* C16: at no point are two render jobs in status 'running', whichever
\* endpoint started them.
C16_OneRenderAtATime == Cardinality(Running) <= 1

(***************************************************************************)
(* POST /api/import/rematch-segment (routes/import.js) and                 *)
(* remapBeatsToSegmentCues (services/beat-remap.js).  A file that may be   *)
(* missing is a sequence of at most one element (its content), or a        *)
(* function whose domain is the set of the files that exist.               *)
(***************************************************************************)
\* The element of a singleton set; The({ e : x \in {v} }) is e with x bound
\* to the value of v, which is then computed once however often e reads x
The(S) == CHOOSE x \in S : TRUE

DigitOf(d) == <<"0", "1", "2", "3", "4", "5", "6", "7", "8", "9">>[d + 1]

\* String(n) of a natural number
RECURSIVE NatToString(_)
NatToString(n) ==
    IF n < 10 THEN <<DigitOf(n)>> ELSE NatToString(n \div 10) \o <<DigitOf(n % 10)>>

\* s.padStart(width, '0')
RECURSIVE PadStart(_, _)
PadStart(s, width) == IF Len(s) >= width THEN s ELSE PadStart(<<"0">> \o s, width)

\* Math.floor(x), as an integer
RFloor(x) == x[1] \div x[2]

\* x % n for x >= 0
RMod(x, n) == RSub(x, RInt(n * (RFloor(x) \div n)))

\* secondsToSrtTime(seconds): HH:MM:SS,mmm
secondsToSrtTime(seconds) ==
    LET h  == RFloor(RDiv(seconds, RInt(3600)))
        m  == RFloor(RDiv(RMod(seconds, 3600), RInt(60)))
        s  == RMod(seconds, 60)
        ms == RoundInt(RMul(RSub(s, RInt(RFloor(s))), RInt(1000)))
    IN  PadStart(NatToString(h), 2) \o <<":">> \o PadStart(NatToString(m), 2) \o <<":">>
        \o PadStart(NatToString(RFloor(s)), 2) \o <<",">> \o PadStart(NatToString(ms), 3)

\* text.replace(/<[^>]*>/g, ''): a '<' with a '>' after it is removed up to
\* the first such '>'
RECURSIVE StripTags(_)
StripTags(s) ==
    IF s = <<>> THEN <<>>
    ELSE IF Head(s) = "<" /\ \E k \in 2..Len(s) : s[k] = ">"
    THEN LET close == CHOOSE k \in 2..Len(s) :
                         s[k] = ">" /\ \A j \in 2..(k - 1) : s[j] # ">"
         IN  StripTags(SubSeq(s, close + 1, Len(s)))
    ELSE <<Head(s)>> \o StripTags(Tail(s))

\* The mini-SRT of remapBeatsToSegmentCues, block by block
MiniSrt(segCues) ==
    [i \in 1..Len(segCues) |->
        [id |-> i, startTime |-> secondsToSrtTime(segCues[i].startTime),
         endTime |-> secondsToSrtTime(segCues[i].endTime), text |-> segCues[i].text]]

\* parseSrt(srtContent), from the blocks of the SRT text
parseSrt(blocks) ==
    [i \in 1..Len(blocks) |->
        [index |-> blocks[i].id, startTime |-> timeToSeconds(blocks[i].startTime),
         endTime |-> timeToSeconds(blocks[i].endTime),
         text |-> Trim(StripTags(blocks[i].text))]]

\* The loop over the beats of mapSrtToBeatsIntelligent without opts.beatTypes:
\* the mapping entries of the beats k, k + 1, ...
RECURSIVE MappingFrom(_, _, _, _, _)
MappingFrom(texts, cs, cTexts, k, from) ==
    IF k >= Len(texts) THEN <<>>
    ELSE The({ The({
             IF RLe(Threshold("none"), best[2]) /\ best[1] >= 0
             THEN <<[beatIdx |-> k, cueIdx |-> best[1],
                     score |-> RoundInt(RMul(best[2], RInt(100))),
                     time |-> cs[best[1] + 1].startTime, skipped |-> "none"]>>
                  \o MappingFrom(texts, cs, cTexts, k + 1, best[1] + 1)
             ELSE <<Unmatched(k, "none")>> \o MappingFrom(texts, cs, cTexts, k + 1, from)
             : best \in { IF beatText = <<>> THEN <<-1, RInt(0)>>
                          ELSE BestMatch(beatText, cTexts, from) } })
           : beatText \in {normalize(texts[k + 1])} })

\* mapSrtToBeatsIntelligent(srtContent, beatTexts) as one call, without opts
mapSrtToBeatsIntelligent(srtContent, texts) ==
    The({ IF Len(texts) = 0
          THEN [beatTimes |-> [i \in 1..Len(cs) |-> cs[i].startTime], mapping |-> NULL,
                matchedCount |-> NullIdx, method |-> "fallback"]
          ELSE The({ The({
                 [beatTimes |-> interpolateMissing(map, cs, NULL, NULL), mapping |-> map,
                  matchedCount |-> Cardinality({i \in 1..Len(map) : map[i].cueIdx # NullIdx}),
                  method |-> "text-match"]
                 : map \in {MappingFrom(texts, cs, cTexts, 0, 0)} })
               : cTexts \in {CueTexts(cs)} })
          : cs \in {parseSrt(srtContent)} })

\* fs.writeFileSync(<fileName>.timing.json, timing)
WriteTiming(files, fileName, timing) ==
    [f \in DOMAIN files \cup {fileName} |-> IF f = fileName THEN timing ELSE files[f]]

\* Array.prototype.find: the index of the first entry satisfying Test (0: none)
FirstIndex(seq, Test(_)) ==
    IF \E i \in 1..Len(seq) : Test(seq[i])
    THEN CHOOSE i \in 1..Len(seq) : Test(seq[i]) /\ \A j \in 1..(i - 1) : ~Test(seq[j])
    ELSE 0

HasFileName(seq, x) == \E i \in 1..Len(seq) : seq[i] = x

\* allCues.filter(c => c.startTime >= start - buffer && c.startTime <= end + buffer)
RemapBuffer == 2

RECURSIVE FilterRange(_, _, _)
FilterRange(cs, lo, hi) ==
    IF cs = <<>> THEN <<>>
    ELSE IF RLe(lo, Head(cs).startTime) /\ RLe(Head(cs).startTime, hi)
    THEN <<Head(cs)>> \o FilterRange(Tail(cs), lo, hi)
    ELSE FilterRange(Tail(cs), lo, hi)

\* x on a JavaScript number that may be null: null - 2 is -2, null + 2 is 2
NullAsZero(x) == IF x = NULL THEN RInt(0) ELSE x

SegCues(allCues, segMatch) ==
    FilterRange(allCues, RSub(segMatch.startTime, RInt(RemapBuffer)),
                RAdd(NullAsZero(segMatch.endTime), RInt(RemapBuffer)))

\* remapBeatsToSegmentCues(fileName, analysis): the timing files it leaves,
\* given the timing files, project.json and project-srt.cache on disk
remapBeatsToSegmentCues(fileName, analysis, files, pFile, cache) ==
    IF fileName \notin DOMAIN files THEN files
    ELSE IF files[fileName].source # "srt-project" THEN files
    ELSE IF Len(analysis.beatTexts) = 0 THEN files
    ELSE IF Len(pFile) = 0 THEN files
    ELSE IF pFile[1].srtMatch = NULL THEN files
    ELSE LET ms  == pFile[1].srtMatch
             HasFile(m) == HasFileName(m.htmlFiles, fileName)
             idx == FirstIndex(ms, HasFile)
         IN  IF idx = 0 THEN files
             ELSE IF ms[idx].startTime = NULL THEN files
             ELSE IF Len(cache) = 0 THEN files
             ELSE The({
                  IF Len(segCues) = 0 THEN files
                  ELSE The({ The({
                         IF Len(result.beatTimes) = 0 THEN files
                         ELSE WriteTiming(files, fileName,
                                 [beatTimes |-> result.beatTimes,
                                  source |-> files[fileName].source,
                                  method |-> "script-match-refined",
                                  segmentNum |-> files[fileName].segmentNum,
                                  startTime |-> files[fileName].startTime,
                                  endTime |-> files[fileName].endTime,
                                  mapping |-> result.mapping, cues |-> segCues,
                                  matchedCount |-> result.matchedCount])
                         : result \in {mapSrtToBeatsIntelligent(miniSrt, analysis.beatTexts)} })
                       : miniSrt \in {MiniSrt(segCues)} })
                  : segCues \in {SegCues(The({parseSrt(b) : b \in {cache[1]}}), ms[idx])} })
(***************************************************************************)
(* Inputs of the rematch request.                                          *)
(***************************************************************************)
Ts_0     == <<"0", "0", ":", "0", "0", ":", "0", "0", ",", "0", "0", "0">>
Ts_4     == <<"0", "0", ":", "0", "0", ":", "0", "4", ",", "0", "0", "0">>
Ts_5_5   == <<"0", "0", ":", "0", "0", ":", "0", "5", ",", "5", "0", "0">>
Ts_9_25  == <<"0", "0", ":", "0", "0", ":", "0", "9", ",", "2", "5", "0">>
Ts_11    == <<"0", "0", ":", "0", "0", ":", "1", "1", ",", "0", "0", "0">>
Ts_15    == <<"0", "0", ":", "0", "0", ":", "1", "5", ",", "0", "0", "0">>

\* project-srt.cache: three cues more than twice the buffer apart
RematchSrt ==
    <<[id |-> 1, startTime |-> Ts_0, endTime |-> Ts_4, text |-> Cue_Apples],
      [id |-> 2, startTime |-> Ts_5_5, endTime |-> Ts_9_25, text |-> Cue_Bananas],
      [id |-> 3, startTime |-> Ts_11, endTime |-> Ts_15, text |-> Cue_Cherries]>>

SrtCachePool == { <<>>, << <<>> >>, <<RematchSrt>> }

File_A == "a.html"
File_B == "b.html"
File_C == "c.html"
HtmlFileNames == {File_A, File_B, File_C}

SegMatch(num, start, end, files) ==
    [num |-> num, startTime |-> start, endTime |-> end, matched |-> start # NULL,
     htmlFiles |-> files]

ProjectSegments ==
    <<[num |-> 1, htmlFiles |-> <<File_A, File_B>>], [num |-> 2, htmlFiles |-> <<File_C>>]>>

\* project.json: none, without srtMatch, or with the matches of two segments
ProjectPool ==
    { <<>>,
      <<[segments |-> ProjectSegments, srtMatch |-> NULL]>> }
    \cup
    { <<[segments |-> segs,
         srtMatch |-> <<SegMatch(1, r1[1], r1[2], <<File_A, File_B>>),
                        SegMatch(2, r2[1], r2[2], <<File_C>>)>>]>> :
      segs \in {ProjectSegments, <<>>},
      r1 \in {<<RInt(0), RInt(4)>>, <<NULL, NULL>>},
      r2 \in {<<Rat(11, 2), Rat(37, 4)>>, <<NULL, NULL>>} }

\* <file>.analysis.json
AnalysisPool ==
    { [beatCount |-> 2, beatTexts |-> <<Beat_Apples, Beat_Cherries>>],
      [beatCount |-> 3, beatTexts |-> <<Beat_Bananas, Text_Zz, Beat_Cherries>>],
      [beatCount |-> 0, beatTexts |-> <<>>] }

AnalysisFilesPool ==
    UNION { [S -> AnalysisPool] : S \in SUBSET HtmlFileNames }

\* req.body: a missing field is a missing key
RequestPool ==
    { [segmentNum |-> n, newStartTime |-> t] : n \in 1..3, t \in {RInt(0), RInt(6), RInt(11)} }
    \cup { [segmentNum |-> 1], [newStartTime |-> RInt(0)] }

InitRematch ==
    /\ projectFile \in ProjectPool /\ project = NULL /\ timingFiles = <<>> /\ analysisFiles \in AnalysisFilesPool /\ srtCache \in SrtCachePool /\ rmReq = NULL /\ startCue = NULL /\ newEndTime = NULL /\ htmlFiles = <<>> /\ rmFileIdx = 0 /\ rmStatus = 0 /\ rmPc = "idle"
    /\ cues = <<>> /\ cueTexts = <<>> /\ beatTexts = <<>> /\ beatTypes = <<>>
    /\ segStart = NULL /\ segEnd = NULL
    /\ beatIdx = 0 /\ searchStart = 0 /\ mapping = <<>>
    /\ bestIdx = -1 /\ bestScore = RInt(0)
    /\ beatTimes = NULL /\ method = "none" /\ bPc = "idle"
    /\ nText = <<>> /\ nOut = NULL /\ nPc = "idle"
    /\ simA = <<>> /\ simB = <<>> /\ simOut = NULL /\ simPc = "idle"
    /\ tsInput = <<>> /\ tsOut = NULL /\ tsPc = "idle"
    /\ segments = <<>> /\ cueWordSets = <<>> /\ segIdx = 0 /\ rawMatches = <<>>
    /\ matchedIdxs = <<>> /\ candPos = 0 /\ assigned = <<>>
    /\ segmentMatches = NULL /\ sPc = "idle"
    /\ jobs = <<>> /\ renderAllRunning = FALSE /\ allQueue = 0 /\ allJob = 0
    /\ analyzeAllRunning = FALSE /\ analyzeQueue = 0 /\ analyzeErrors = 0 /\ response = [route |-> "none", status |-> 0] /\ reqParity = 0
    /\ renderBeatTimes = <<>> /\ transitionMs = 0 /\ localBeats = <<>> /\ totalFrames = 0 /\ frame = 0 /\ nextBeatIdx = 0 /\ clickedAt = NULL /\ lastFrame = FALSE /\ clicks = <<>> /\ signalAborted = FALSE /\ cancelReturned = FALSE /\ jobStatus = "none" /\ broadcasts = {} /\ outputFile = "none" /\ rPc = "idle"

\* |a - b| on numbers
RAbsDiff(a, b) == IF RLe(b, a) THEN RSub(a, b) ELSE RSub(b, a)

\* allCues.reduce((best, c) => |c.startTime - t| < |best.startTime - t| ? c : best,
\* allCues[0]): the index of the result, for a non-empty list
RECURSIVE ClosestFrom(_, _, _, _)
ClosestFrom(allCues, t, i, best) ==
    IF i > Len(allCues) THEN best
    ELSE IF RLt(RAbsDiff(allCues[i].startTime, t), RAbsDiff(allCues[best].startTime, t))
    THEN ClosestFrom(allCues, t, i + 1, i)
    ELSE ClosestFrom(allCues, t, i + 1, best)

ClosestCue(allCues, t) == allCues[ClosestFrom(allCues, t, 1, 1)]

\* [...segmentMatches].sort(...): entry i comes before entry j.  Entries without
\* a startTime go last; the order among them is never read
SortsBefore(ms, i, j) ==
    IF ms[i].startTime = NULL THEN ms[j].startTime = NULL /\ i < j
    ELSE IF ms[j].startTime = NULL THEN TRUE
    ELSE RLt(ms[i].startTime, ms[j].startTime)
         \/ (ms[i].startTime = ms[j].startTime /\ i < j)

SortedMatches(ms) ==
    LET rank(i) == 1 + Cardinality({j \in 1..Len(ms) : j # i /\ SortsBefore(ms, j, i)})
    IN  [k \in 1..Len(ms) |-> ms[CHOOSE i \in 1..Len(ms) : rank(i) = k]]

\* x || 0 on a time that may be null
TimeOrZero(x) == IF x = NULL THEN RInt(0) ELSE x

\* Lines 393-407: the new end time
NewEndTime(ms, segMatch, start) ==
    LET sortedMatches == SortedMatches(ms)
        IsMine(m) == m.num = segMatch.num
        myIdx == FirstIndex(sortedMatches, IsMine)
    IN  IF myIdx >= 1 /\ myIdx < Len(sortedMatches)
           /\ sortedMatches[myIdx + 1].startTime # NULL
        THEN sortedMatches[myIdx + 1].startTime
        ELSE RAdd(start, RSub(TimeOrZero(segMatch.endTime), TimeOrZero(segMatch.startTime)))

\* Lines 432-444: the beats spread evenly over the new range
EvenBeatTimes(beatCount, start, end) ==
    IF beatCount > 1
    THEN [i \in 1..beatCount |->
            RoundMs(RAdd(start, RMul(Rat(i - 1, beatCount - 1), RSub(end, start))))]
    ELSE <<RoundMs(start)>>

\* The response of a request that is refused, or that throws (500)
RematchEnds(status) ==
    /\ rmStatus' = status
    /\ rmPc' = "done"
    /\ UNCHANGED <<projectFile, project, timingFiles, analysisFiles, srtCache, startCue,
                   newEndTime, htmlFiles, rmFileIdx>>

\* Lines 357-418: the request up to the loop over the HTML files
RematchRequest ==
    /\ rmPc = "idle"
    /\ \E body \in RequestPool :
        /\ rmReq' = body
        /\ IF {"segmentNum", "newStartTime"} \ DOMAIN body # {} THEN RematchEnds(400)
           ELSE IF Len(projectFile) = 0 THEN RematchEnds(400)
           ELSE IF projectFile[1].srtMatch = NULL THEN RematchEnds(400)
           ELSE LET ms == projectFile[1].srtMatch
                    HasNum(m) == m.num = body.segmentNum
                    idx == FirstIndex(ms, HasNum)
                    segmentIdx == FirstIndex(projectFile[1].segments, HasNum)
                IN  IF idx = 0 THEN RematchEnds(404)
                    ELSE IF Len(srtCache) = 0 THEN RematchEnds(400)
                    ELSE IF Len(srtCache[1]) = 0 THEN RematchEnds(500)
                    ELSE \E cue \in {ClosestCue(The({parseSrt(b) : b \in {srtCache[1]}}),
                                                 body.newStartTime)} :
                         \E end \in {NewEndTime(ms, ms[idx], cue.startTime)} :
                         /\ startCue' = cue
                         /\ newEndTime' = end
                         /\ project' = [projectFile[1] EXCEPT !.srtMatch[idx] =
                                          [@ EXCEPT !.startTime = cue.startTime,
                                                    !.endTime = end, !.matched = TRUE]]
                         /\ htmlFiles' = IF segmentIdx > 0
                                         THEN projectFile[1].segments[segmentIdx].htmlFiles
                                         ELSE ms[idx].htmlFiles
                         /\ rmFileIdx' = 0
                         /\ rmPc' = "files"
                         /\ UNCHANGED <<projectFile, timingFiles, analysisFiles, srtCache,
                                        rmStatus>>
    /\ UNCHANGED <<textVars, simVars, timeVars, beatVars, segVars, renderVars, captureVars, batchVars>>

\* Lines 421-462: one HTML file of the segment
RematchVariant ==
    /\ rmPc = "files"
    /\ rmFileIdx < Len(htmlFiles)
    /\ LET htmlFile  == htmlFiles[rmFileIdx + 1]
           hasAnalysis == htmlFile \in DOMAIN analysisFiles
           beatCount == IF hasAnalysis /\ analysisFiles[htmlFile].beatCount # 0
                        THEN analysisFiles[htmlFile].beatCount ELSE 1
           timing == [beatTimes |-> EvenBeatTimes(beatCount, startCue.startTime, newEndTime),
                      source |-> "srt-project", method |-> "script-match",
                      segmentNum |-> rmReq.segmentNum,
                      startTime |-> startCue.startTime, endTime |-> newEndTime]
           written == WriteTiming(timingFiles, htmlFile, timing)
       IN  timingFiles' = IF hasAnalysis
                          THEN remapBeatsToSegmentCues(htmlFile, analysisFiles[htmlFile],
                                                       written, projectFile, srtCache)
                          ELSE written
    /\ rmFileIdx' = rmFileIdx + 1
    /\ UNCHANGED <<projectFile, project, analysisFiles, srtCache, rmReq, startCue,
                   newEndTime, htmlFiles, rmStatus, rmPc>>
    /\ UNCHANGED <<textVars, simVars, timeVars, beatVars, segVars, renderVars, captureVars, batchVars>>

\* Lines 464-475: project.json is saved and the request answered
RematchSave ==
    /\ rmPc = "files"
    /\ rmFileIdx = Len(htmlFiles)
    /\ projectFile' = <<project>>
    /\ rmStatus' = 200
    /\ rmPc' = "done"
    /\ UNCHANGED <<project, timingFiles, analysisFiles, srtCache, rmReq, startCue,
                   newEndTime, htmlFiles, rmFileIdx>>
    /\ UNCHANGED <<textVars, simVars, timeVars, beatVars, segVars, renderVars, captureVars, batchVars>>

NextRematch == RematchRequest \/ RematchVariant \/ RematchSave

SpecRematch == InitRematch /\ [][NextRematch]_vars
(***************************************************************************)
(* Claims about the rematch request.                                       *)
(***************************************************************************)
\* The cues of the range the request has just given the segment, with the
\* buffer of the re-mapping
NewRangeCues ==
    SegCues(parseSrt(srtCache[1]), [startTime |-> startCue.startTime, endTime |-> newEndTime])

\* C26: once POST /api/import/rematch-segment has completed, every variant of
\* the segment that has an analysis with beat texts was re-mapped against the
\* cues of the segment's new range: its timing file holds those cues and the
\* beatTimes the aligner derives from them (and the evenly spread beatTimes
\* only when the new range holds no cue).
C26_RemapUsesNewRange ==
    (rmPc = "done" /\ rmStatus = 200) =>
        \A i \in 1..Len(htmlFiles) :
            LET f == htmlFiles[i]
            IN  (f \in DOMAIN analysisFiles /\ Len(analysisFiles[f].beatTexts) > 0) =>
                    IF Len(NewRangeCues) = 0
                    THEN timingFiles[f].method = "script-match"
                    ELSE /\ timingFiles[f].method = "script-match-refined"
                         /\ timingFiles[f].cues = NewRangeCues
                         /\ timingFiles[f].beatTimes =
                                mapSrtToBeatsIntelligent(MiniSrt(NewRangeCues),
                                                         analysisFiles[f].beatTexts).beatTimes

(***************************************************************************)
(* One render job in detail: startRender and runRender (renderer.js),      *)
(* captureFrames (puppeteer-capture.js) and cancelJob.  A step runs from   *)
(* one await on the browser, on ffmpeg or on a timer to the next; a cancel *)
(* request is served only while the job waits in such an await.            *)
(***************************************************************************)
FPS == 30
DEFAULT_TRANSITION_DURATION == 600
MaxRenderBeats == 3

\* Math.ceil(x), as an integer
RCeil(x) == -((-x[1]) \div x[2])

\* [...beatTimes].sort((a, b) => a - b)
SortedBeats(times) ==
    LET before(i, j) == RLt(times[i], times[j]) \/ (times[i] = times[j] /\ i < j)
        rank(i) == 1 + Cardinality({j \in 1..Len(times) : j # i /\ before(j, i)})
    IN  [k \in 1..Len(times) |-> times[CHOOSE i \in 1..Len(times) : rank(i) = k]]

\* Lines 52-53: the beats shifted so that the first one is at 0
LocalBeats(times) ==
    LET sortedBeats == SortedBeats(times)
        timelineOffset == IF Len(sortedBeats) > 0 THEN sortedBeats[1] ELSE RInt(0)
    IN  [k \in 1..Len(sortedBeats) |-> RSub(sortedBeats[k], timelineOffset)]

\* Lines 55-57
TotalFrames(local, transition) ==
    LET lastLocalBeat == IF Len(local) > 0 THEN local[Len(local)] ELSE RInt(0)
        totalDuration == RAdd(RAdd(lastLocalBeat, Rat(transition, 1000)), Rat(1, 2))
    IN  RCeil(RMul(totalDuration, RInt(FPS)))

\* currentTimeMs and currentTimeSec of frame f
CurrentTimeMs(f)  == RMul(RInt(f), Rat(1000, FPS))
CurrentTimeSec(f) == RDiv(CurrentTimeMs(f), RInt(1000))

\* Line 75: the next beat is due at frame f
ClickDue(f) ==
    nextBeatIdx < Len(localBeats) /\ RLe(localBeats[nextBeatIdx + 1], CurrentTimeSec(f))

\* Lines 83-84: frame f lies in the transition after the click at `clicked`
InTransition(f, clicked) ==
    /\ clicked # NULL
    /\ RLe(RInt(0), RSub(CurrentTimeMs(f), clicked))
    /\ RLe(RSub(CurrentTimeMs(f), clicked), RInt(transitionMs))

\* Beat times as the aligner stores them, rounded to milliseconds
RenderTimePool == {RInt(5), Rat(501, 100), Rat(101, 20), Rat(51, 10), Rat(11, 2)}
RenderBeatLists == UNION { [1..n -> RenderTimePool] : n \in 0..MaxRenderBeats }

\* analysis.maxTransitionMs capped at 2000, or the default
TransitionPool == {DEFAULT_TRANSITION_DURATION, 100}

\* The state when startRender returns: the job is 'running' and runRender
\* waits for the browser
InitCapture ==
    /\ renderBeatTimes \in RenderBeatLists /\ transitionMs \in TransitionPool /\ localBeats = <<>> /\ totalFrames = 0 /\ frame = 0 /\ nextBeatIdx = 0 /\ clickedAt = NULL /\ lastFrame = FALSE /\ clicks = <<>> /\ signalAborted = FALSE /\ cancelReturned = FALSE /\ jobStatus = "running" /\ broadcasts = {} /\ outputFile = "none" /\ rPc = "launch"
    /\ jobs = <<>> /\ renderAllRunning = FALSE /\ allQueue = 0 /\ allJob = 0
    /\ analyzeAllRunning = FALSE /\ analyzeQueue = 0 /\ analyzeErrors = 0 /\ response = [route |-> "none", status |-> 0] /\ reqParity = 0
    /\ projectFile = <<>> /\ project = NULL /\ timingFiles = <<>> /\ analysisFiles = <<>> /\ srtCache = <<>> /\ rmReq = NULL /\ startCue = NULL /\ newEndTime = NULL /\ htmlFiles = <<>> /\ rmFileIdx = 0 /\ rmStatus = 0 /\ rmPc = "idle"
    /\ cues = <<>> /\ cueTexts = <<>> /\ beatTexts = <<>> /\ beatTypes = <<>>
    /\ segStart = NULL /\ segEnd = NULL
    /\ beatIdx = 0 /\ searchStart = 0 /\ mapping = <<>>
    /\ bestIdx = -1 /\ bestScore = RInt(0)
    /\ beatTimes = NULL /\ method = "none" /\ bPc = "idle"
    /\ nText = <<>> /\ nOut = NULL /\ nPc = "idle"
    /\ simA = <<>> /\ simB = <<>> /\ simOut = NULL /\ simPc = "idle"
    /\ tsInput = <<>> /\ tsOut = NULL /\ tsPc = "idle"
    /\ segments = <<>> /\ cueWordSets = <<>> /\ segIdx = 0 /\ rawMatches = <<>>
    /\ matchedIdxs = <<>> /\ candPos = 0 /\ assigned = <<>>
    /\ segmentMatches = NULL /\ sPc = "idle"

OtherVars == <<textVars, simVars, timeVars, beatVars, segVars, renderVars, rematchVars, batchVars>>

\* cancelJob(jobId) while the job is 'running': the signal is aborted, the
\* call returns true
CancelRunning ==
    /\ rPc \in {"launch", "shot", "drain", "encode"}
    /\ jobStatus = "running"
    /\ signalAborted' = TRUE
    /\ cancelReturned' = TRUE
    /\ UNCHANGED <<renderBeatTimes, transitionMs, localBeats, totalFrames, frame, nextBeatIdx,
                   clickedAt, lastFrame, clicks, jobStatus, broadcasts, outputFile, rPc>>
    /\ UNCHANGED OtherVars

\* The promise of runRender rejects: the .catch handler of startRender
Rejected(message) ==
    /\ jobStatus' = IF message = "Render cancelled" THEN "cancelled" ELSE "error"
    /\ broadcasts' = broadcasts \cup
                     {IF message = "Render cancelled" THEN "render-cancelled" ELSE "render-error"}
    /\ outputFile' = "none"
    /\ rPc' = "settled"

\* Lines 22-58: the browser is up and the page loaded; the loop starts
LaunchDone ==
    /\ rPc = "launch"
    /\ localBeats' = LocalBeats(renderBeatTimes)
    /\ totalFrames' = TotalFrames(LocalBeats(renderBeatTimes), transitionMs)
    /\ frame' = 0
    /\ rPc' = "top"
    /\ UNCHANGED <<renderBeatTimes, transitionMs, nextBeatIdx, clickedAt, lastFrame, clicks,
                   signalAborted, cancelReturned, jobStatus, broadcasts, outputFile>>
    /\ UNCHANGED OtherVars

\* The browser, the page or a screenshot fails
CaptureFails ==
    /\ rPc \in {"launch", "shot"}
    /\ Rejected("browser error")
    /\ UNCHANGED <<renderBeatTimes, transitionMs, localBeats, totalFrames, frame, nextBeatIdx,
                   clickedAt, lastFrame, clicks, signalAborted, cancelReturned>>
    /\ UNCHANGED OtherVars

\* runRender lines 118-124 for the frame the generator has yielded
Consume ==
    IF signalAborted
    THEN /\ rPc' = "encode"
         /\ UNCHANGED <<frame, outputFile>>
    ELSE /\ outputFile' = "partial"
         /\ \E canWrite \in BOOLEAN :
               IF canWrite THEN rPc' = "top" /\ frame' = frame + 1
               ELSE rPc' = "drain" /\ UNCHANGED frame

\* captureFrames lines 65-68: the signal is aborted at the top of the loop
FrameCancelled ==
    /\ rPc = "top"
    /\ frame < totalFrames
    /\ signalAborted
    /\ Rejected("Render cancelled")
    /\ UNCHANGED <<renderBeatTimes, transitionMs, localBeats, totalFrames, frame, nextBeatIdx,
                   clickedAt, lastFrame, clicks, signalAborted, cancelReturned>>
    /\ UNCHANGED OtherVars

\* Lines 70-81: the next beat is due; page.click() is awaited
FrameClick ==
    /\ rPc = "top"
    /\ frame < totalFrames
    /\ ~signalAborted
    /\ ClickDue(frame)
    /\ clicks' = Append(clicks, frame)
    /\ clickedAt' = CurrentTimeMs(frame)
    /\ nextBeatIdx' = nextBeatIdx + 1
    /\ rPc' = "shot"
    /\ UNCHANGED <<renderBeatTimes, transitionMs, localBeats, totalFrames, frame, lastFrame,
                   signalAborted, cancelReturned, jobStatus, broadcasts, outputFile>>
    /\ UNCHANGED OtherVars

\* Lines 83-101 without a click, a fresh frame: page.screenshot() is awaited
FrameFresh ==
    /\ rPc = "top"
    /\ frame < totalFrames
    /\ ~signalAborted
    /\ ~ClickDue(frame)
    /\ InTransition(frame, clickedAt) \/ ~lastFrame
    /\ rPc' = "shot"
    /\ UNCHANGED <<renderBeatTimes, transitionMs, localBeats, totalFrames, frame, nextBeatIdx,
                   clickedAt, lastFrame, clicks, signalAborted, cancelReturned, jobStatus,
                   broadcasts, outputFile>>
    /\ UNCHANGED OtherVars

\* Lines 94-96: a static hold yields the last frame without waiting, and
\* runRender writes it
FrameHeld ==
    /\ rPc = "top"
    /\ frame < totalFrames
    /\ ~signalAborted
    /\ ~ClickDue(frame)
    /\ ~InTransition(frame, clickedAt) /\ lastFrame
    /\ Consume
    /\ UNCHANGED <<renderBeatTimes, transitionMs, localBeats, totalFrames, nextBeatIdx,
                   clickedAt, lastFrame, clicks, signalAborted, cancelReturned, jobStatus,
                   broadcasts>>
    /\ UNCHANGED OtherVars

\* The screenshot of the frame arrives and is yielded; runRender takes it
ShotDone ==
    /\ rPc = "shot"
    /\ lastFrame' = TRUE
    /\ Consume
    /\ UNCHANGED <<renderBeatTimes, transitionMs, localBeats, totalFrames, nextBeatIdx,
                   clickedAt, clicks, signalAborted, cancelReturned, jobStatus, broadcasts>>
    /\ UNCHANGED OtherVars

\* ffmpeg's stdin has drained; the generator is resumed
DrainDone ==
    /\ rPc = "drain"
    /\ frame' = frame + 1
    /\ rPc' = "top"
    /\ UNCHANGED <<renderBeatTimes, transitionMs, localBeats, totalFrames, nextBeatIdx,
                   clickedAt, lastFrame, clicks, signalAborted, cancelReturned, jobStatus,
                   broadcasts, outputFile>>
    /\ UNCHANGED OtherVars

\* The loop of captureFrames ends; runRender ends ffmpeg's stdin (line 126)
FramesDone ==
    /\ rPc = "top"
    /\ frame >= totalFrames
    /\ rPc' = "encode"
    /\ UNCHANGED <<renderBeatTimes, transitionMs, localBeats, totalFrames, frame, nextBeatIdx,
                   clickedAt, lastFrame, clicks, signalAborted, cancelReturned, jobStatus,
                   broadcasts, outputFile>>
    /\ UNCHANGED OtherVars

\* ffmpeg has encoded the frames it was given and closes with code 0:
\* runRender resolves, the .then handler runs
EncodeDone ==
    /\ rPc = "encode"
    /\ outputFile = "partial"
    /\ jobStatus' = "done"
    /\ broadcasts' = broadcasts \cup {"render-done"}
    /\ outputFile' = "complete"
    /\ rPc' = "settled"
    /\ UNCHANGED <<renderBeatTimes, transitionMs, localBeats, totalFrames, frame, nextBeatIdx,
                   clickedAt, lastFrame, clicks, signalAborted, cancelReturned>>
    /\ UNCHANGED OtherVars

\* ffmpeg closes with another code, or cannot be run
EncodeFails ==
    /\ rPc = "encode"
    /\ Rejected("ffmpeg exited")
    /\ UNCHANGED <<renderBeatTimes, transitionMs, localBeats, totalFrames, frame, nextBeatIdx,
                   clickedAt, lastFrame, clicks, signalAborted, cancelReturned>>
    /\ UNCHANGED OtherVars

NextCapture ==
    \/ CancelRunning
    \/ LaunchDone \/ CaptureFails
    \/ FrameCancelled \/ FrameClick \/ FrameFresh \/ FrameHeld
    \/ ShotDone \/ DrainDone \/ FramesDone
    \/ EncodeDone \/ EncodeFails

SpecCapture == InitCapture /\ [][NextCapture]_vars

(***************************************************************************)
(* Claims about the frame capture and the cancellation of a render job.    *)
(***************************************************************************)
\* The first frame whose time is at or after t seconds
FirstFrameAt(t) == RCeil(RMul(t, RInt(FPS)))

\* The capture has run through its last frame without being cancelled
CaptureComplete == rPc \in {"encode", "settled"} /\ ~signalAborted /\ frame = totalFrames

\* C27: captureFrames clicks once per beat, in ascending order of time, the
\* click of beat k on the first frame whose time (from the earliest beat) is
\* at or after the time of beat k, and by the last frame every beat has been
\* clicked.
C27_ClicksAtBeatTimes ==
    /\ rPc \notin {"idle", "launch"} =>
          /\ Len(clicks) <= Len(localBeats)
          /\ \A k \in 1..Len(clicks) : clicks[k] = FirstFrameAt(localBeats[k])
    /\ CaptureComplete => Len(clicks) = Len(localBeats)

\* C28: once cancelJob has returned true for a running job, the job never
\* ends 'done'; when it ends 'cancelled', render-cancelled has been broadcast
\* and the output file is gone.
C28_CancelNeverDone ==
    cancelReturned =>
        /\ jobStatus # "done"
        /\ jobStatus = "cancelled" =>
              "render-cancelled" \in broadcasts /\ outputFile = "none"

(***************************************************************************)
(* Claims about the batch routes.                                          *)
(***************************************************************************)
\* A step that answers a request to the route
RequestTo(route) == reqParity' # reqParity /\ response'.route = route

\* C29: for render-all and for analyze-all alike, a request that arrives while
\* a batch of its kind is in progress is answered 409 and changes nothing, a
\* request that arrives while none is in progress is not answered 409, the
\* flag is set exactly while a batch has work left, and a flag that is set is
\* cleared in the end, whether the items succeed, fail or are cancelled.
C29_BatchExclusion ==
    /\ [](renderAllRunning <=> allJob # 0)
    /\ [](analyzeAllRunning <=> analyzeQueue > 0)
    /\ [][/\ (renderAllRunning /\ RequestTo("render-all")) =>
                (response'.status = 409 /\ UNCHANGED renderVars)
          /\ (~renderAllRunning /\ RequestTo("render-all")) => response'.status # 409
          /\ (analyzeAllRunning /\ RequestTo("analyze-all")) =>
                (response'.status = 409
                 /\ UNCHANGED <<analyzeAllRunning, analyzeQueue, analyzeErrors>>)
          /\ (~analyzeAllRunning /\ RequestTo("analyze-all")) => response'.status # 409
         ]_vars
    /\ (renderAllRunning ~> ~renderAllRunning)
    /\ (analyzeAllRunning ~> ~analyzeAllRunning)

\* C29 witness: a render-all whose last item was cancelled has ended and its
\* flag is clear; the last request, made while it ran, was answered 409
C29_Witness ==
    /\ ~renderAllRunning
    /\ jobs # <<>> /\ jobs[Len(jobs)].status = "cancelled"
    /\ response = [route |-> "render-all", status |-> 409]

(***************************************************************************)
(* Claims about the beat times without segment bounds.                     *)
(***************************************************************************)
\* The cue list is in order of time and no cue ends before it starts
CuesOrdered ==
    /\ \A i \in 1..(Len(cues) - 1) : RLe(cues[i].startTime, cues[i + 1].startTime)
    /\ \A i \in 1..Len(cues) : RLe(cues[i].startTime, cues[i].endTime)

====
